---- MODULE Spec2Model ----
(***************************************************************************)
(* Verification model of the codeshield-backend ingestion pipeline:       *)
(* path filter, chunker, report aggregation, store upserts, analysis      *)
(* dispatch and the run_pipeline orchestrator.                             *)
(*                                                                         *)
(* The module holds several specifications over one set of variables.     *)
(* Each specification drives one component and leaves the variables of    *)
(* the other components at their idle values.                              *)
(***************************************************************************)
EXTENDS Integers, Sequences, FiniteSets, TLC

VARIABLES
    code,         \* chunk_code: the file content, as a sequence of tokens
    file_chunks,  \* chunk_code: the returned list of chunks
    chunk_pc,     \* chunk_code: "idle" | "input" | "done"
    path,         \* should_exclude_path: path_obj.parts
    excluded,     \* should_exclude_path: the returned decision
    filter_pc,    \* should_exclude_path: "idle" | "input" | "done"
    scan_input,   \* aggregation: the list of scan results to aggregate
    agg_report,   \* aggregation: run_pipeline's vulnerability_report (in a list)
    agg_doc,      \* aggregation: save_vulnerability_report's document (in a list)
    pipeline_results,       \* store: the pipeline_results collection
    vulnerability_reports,  \* store: the vulnerability_reports collection
    now,                    \* store: the value datetime.now() returns
    save,                   \* store: per task, the save_* call in progress
    saves,                  \* store: the number of save_* calls made so far
    disp_chunks,    \* dispatch: the chunks handed to analyze_repository
    disp_findings,  \* dispatch: per chunk, what the analysis engine answers
    disp_failure,   \* dispatch: per chunk, how its analysis call fails, or "none"
    disp_state,     \* dispatch: per chunk, "pending" | "inflight" | "done"
    disp_results,   \* dispatch: the result slots, one per chunk
    disp_out,       \* dispatch: the returned list (in a list), once returned
    fs,             \* pipeline: per directory under github_repos, its content
    run,            \* pipeline: per task, the frame of its run_pipeline call
    running,        \* pipeline: the task that holds the event loop, 0 if none
    runs,           \* pipeline: the number of run_pipeline calls made so far
    ext_root,       \* extraction: the repository directory (in a list), <<>> if missing
    ext_runs,       \* extraction: what each extract-and-chunk call returned
    clone_call,     \* clone: the arguments and the environment of a call (in a list)
    clone_ret,      \* clone: what the call returned or raised (in a list)
    file_text,      \* binary check: the decoded content, as runs of characters
    file_kept       \* binary check: whether the file was stored (in a list)

chunkVars == <<code, file_chunks, chunk_pc>>

filterVars == <<path, excluded, filter_pc>>

aggVars == <<scan_input, agg_report, agg_doc>>

storeVars == <<pipeline_results, vulnerability_reports, now, save, saves>>

dispVars == <<disp_chunks, disp_findings, disp_failure, disp_state,
              disp_results, disp_out>>

pipeVars == <<fs, run, running, runs>>

extVars == <<ext_root, ext_runs>>

cloneVars == <<clone_call, clone_ret>>

binVars == <<file_text, file_kept>>

vars == <<chunkVars, filterVars, aggVars, storeVars, dispVars, pipeVars, extVars,
          cloneVars, binVars>>

-----------------------------------------------------------------------------
(* Generic helpers                                                         *)

RECURSIVE SumSeq(_)
SumSeq(s) == IF s = <<>> THEN 0 ELSE Head(s) + SumSeq(Tail(s))

RECURSIVE SeqsUpTo(_, _)
SeqsUpTo(S, n) ==
    IF n = 0 THEN {<<>>}
    ELSE LET shorter == SeqsUpTo(S, n - 1)
         IN  shorter \cup {Append(s, x) : s \in {t \in shorter : Len(t) = n - 1}, x \in S}

-----------------------------------------------------------------------------
(* PathFilter: pipeline_utils.should_exclude_path                          *)
(*                                                                         *)
(* A path is the sequence path_obj.parts of its segments; a segment is a   *)
(* sequence of one-character strings.  pathlib drops "." segments when it  *)
(* builds a path, so no segment is "." ; ".." segments are kept.           *)

\* pipeline_utils.SOURCE_EXTENSIONS
SOURCE_EXTENSIONS ==
    { <<".","b","a","s","h">>, <<".","b","a","t">>, <<".","c">>,
      <<".","c","c">>, <<".","c","m","d">>, <<".","c","p","p">>,
      <<".","c","s">>, <<".","c","x","x">>, <<".","f","i","s","h">>,
      <<".","g","o">>, <<".","h">>, <<".","h","p","p">>,
      <<".","j","a","v","a">>, <<".","j","s">>, <<".","j","s","x">>,
      <<".","k","t">>, <<".","p","h","p">>, <<".","p","s","1">>,
      <<".","p","y">>, <<".","r","b">>, <<".","r","s">>,
      <<".","s","c","a","l","a">>, <<".","s","h">>, <<".","s","w","i","f","t">>,
      <<".","t","s">>, <<".","t","s","x">>, <<".","z","s","h">> }

\* pipeline_utils.EXCLUDED_DIRS
EXCLUDED_DIRS ==
    { <<".","g","i","t">>, <<".","g","i","t","h","u","b">>,
      <<".","g","i","t","l","a","b">>, <<".","g","r","a","d","l","e">>,
      <<".","i","d","e","a">>, <<".","m","v","n">>, <<".","n","e","x","t">>,
      <<".","n","u","x","t">>, <<".","n","y","c","_","o","u","t","p","u","t">>,
      <<".","p","y","t","e","s","t","_","c","a","c","h","e">>,
      <<".","v","e","n","v">>, <<".","v","s","c","o","d","e">>,
      <<"_","_","p","y","c","a","c","h","e","_","_">>,
      <<"a","s","s","e","t","s">>, <<"b","i","n">>,
      <<"b","o","w","e","r","_","c","o","m","p","o","n","e","n","t","s">>,
      <<"b","u","i","l","d">>, <<"c","o","v","e","r","a","g","e">>,
      <<"d","i","s","t">>, <<"d","o","c","s">>,
      <<"d","o","c","u","m","e","n","t","a","t","i","o","n">>,
      <<"i","m","a","g","e","s">>, <<"i","m","g">>, <<"l","i","b">>,
      <<"m","e","d","i","a">>,
      <<"n","o","d","e","_","m","o","d","u","l","e","s">>, <<"o","b","j">>,
      <<"o","u","t">>, <<"p","i","c","s">>, <<"p","i","c","t","u","r","e","s">>,
      <<"t","a","r","g","e","t">>, <<"v","e","n","d","o","r">>,
      <<"v","e","n","v">> }

\* pipeline_utils.EXCLUDED_EXTENSIONS
EXCLUDED_EXTENSIONS ==
    { <<".","7","z">>, <<".","a">>, <<".","a","a","c">>,
      <<".","a","c","c","d","b">>, <<".","a","i">>, <<".","a","v","i">>,
      <<".","b","m","p">>, <<".","b","z","2">>, <<".","c","a","c","h","e">>,
      <<".","c","f","g">>, <<".","c","o","n","f">>, <<".","c","r","2">>,
      <<".","c","s","s">>, <<".","c","s","v">>, <<".","d","b">>,
      <<".","d","l","l">>, <<".","d","o","c">>, <<".","d","o","c","x">>,
      <<".","d","y","l","i","b">>, <<".","e","o","t">>, <<".","e","p","s">>,
      <<".","e","x","e">>, <<".","f","l","a","c">>, <<".","f","l","v">>,
      <<".","g","i","f">>, <<".","g","z">>, <<".","h","e","i","c">>,
      <<".","h","e","i","f">>, <<".","h","t","m">>, <<".","h","t","m","l">>,
      <<".","i","c","o">>, <<".","i","n","i">>, <<".","j","p","e","g">>,
      <<".","j","p","g">>, <<".","j","s","o","n">>, <<".","l","e","s","s">>,
      <<".","l","i","b">>, <<".","l","o","c","k">>, <<".","l","o","g">>,
      <<".","m","4","v">>, <<".","m","a","p">>, <<".","m","d">>,
      <<".","m","d","b">>, <<".","m","k","v">>, <<".","m","o","v">>,
      <<".","m","p","3">>, <<".","m","p","4">>, <<".","n","e","f">>,
      <<".","o","d","s">>, <<".","o","d","t">>, <<".","o","g","g">>,
      <<".","o","t","f">>, <<".","p","d","f">>, <<".","p","n","g">>,
      <<".","p","p","t">>, <<".","p","p","t","x">>, <<".","p","s","d">>,
      <<".","r","a","r">>, <<".","r","a","w">>, <<".","r","t","f">>,
      <<".","s","a","s","s">>, <<".","s","c","s","s">>, <<".","s","o">>,
      <<".","s","q","l","i","t","e">>, <<".","s","q","l","i","t","e","3">>,
      <<".","s","v","g">>, <<".","t","a","r">>,
      <<".","t","a","r",".","b","z","2">>, <<".","t","a","r",".","g","z">>,
      <<".","t","i","f">>, <<".","t","i","f","f">>, <<".","t","o","m","l">>,
      <<".","t","s","v">>, <<".","t","t","f">>, <<".","t","x","t">>,
      <<".","w","a","v">>, <<".","w","e","b","m">>, <<".","w","e","b","p">>,
      <<".","w","m","a">>, <<".","w","m","v">>, <<".","w","o","f","f">>,
      <<".","w","o","f","f","2">>, <<".","x","h","t","m","l">>,
      <<".","x","l","s">>, <<".","x","l","s","x">>, <<".","x","m","l">>,
      <<".","x","z">>, <<".","y","a","m","l">>, <<".","y","m","l">>,
      <<".","z","i","p">> }

\* pipeline_utils.EXCLUDED_FILES
EXCLUDED_FILES ==
    { <<".","D","S","_","S","t","o","r","e">>,
      <<".","b","a","b","e","l","r","c">>, <<".","b","o","w","e","r","r","c">>,
      <<".","c","i","r","c","l","e","c","i">>,
      <<".","c","l","a","s","s","p","a","t","h">>,
      <<".","d","o","c","k","e","r","i","g","n","o","r","e">>,
      <<".","e","d","i","t","o","r","c","o","n","f","i","g">>,
      <<".","e","n","v">>,
      <<".","e","n","v",".","d","e","v","e","l","o","p","m","e","n","t">>,
      <<".","e","n","v",".","l","o","c","a","l">>,
      <<".","e","n","v",".","p","r","o","d","u","c","t","i","o","n">>,
      <<".","e","s","l","i","n","t","i","g","n","o","r","e">>,
      <<".","e","s","l","i","n","t","r","c">>,
      <<".","g","i","t","a","t","t","r","i","b","u","t","e","s">>,
      <<".","g","i","t","i","g","n","o","r","e">>,
      <<".","g","i","t","k","e","e","p">>,
      <<".","g","i","t","m","o","d","u","l","e","s">>, <<".","i","d","e","a">>,
      <<".","n","y","c","r","c">>,
      <<".","p","r","e","t","t","i","e","r","i","g","n","o","r","e">>,
      <<".","p","r","e","t","t","i","e","r","r","c">>,
      <<".","p","r","o","j","e","c","t">>,
      <<".","s","e","t","t","i","n","g","s">>,
      <<".","t","r","a","v","i","s",".","y","m","l">>,
      <<".","v","s","c","o","d","e">>, <<"A","U","T","H","O","R","S">>,
      <<"C","H","A","N","G","E","L","O","G",".","m","d">>,
      <<"C","M","a","k","e","L","i","s","t","s",".","t","x","t">>,
      <<"C","O","N","T","R","I","B","U","T","I","N","G",".","m","d">>,
      <<"C","O","N","T","R","I","B","U","T","O","R","S",".","m","d">>,
      <<"C","a","r","g","o",".","l","o","c","k">>,
      <<"C","a","r","g","o",".","t","o","m","l">>,
      <<"D","o","c","k","e","r","f","i","l","e">>,
      <<"G","e","m","f","i","l","e">>,
      <<"G","e","m","f","i","l","e",".","l","o","c","k">>,
      <<"H","I","S","T","O","R","Y",".","m","d">>,
      <<"L","I","C","E","N","S","E">>, <<"M","a","k","e","f","i","l","e">>,
      <<"P","i","p","f","i","l","e">>,
      <<"P","i","p","f","i","l","e",".","l","o","c","k">>,
      <<"R","E","A","D","M","E",".","m","d">>,
      <<"R","E","A","D","M","E",".","r","s","t">>,
      <<"R","E","A","D","M","E",".","t","x","t">>,
      <<"T","h","u","m","b","s",".","d","b">>,
      <<"a","p","p","v","e","y","o","r",".","y","m","l">>,
      <<"a","z","u","r","e","-","p","i","p","e","l","i","n","e","s",".","y","m","l">>,
      <<"b","a","b","e","l",".","c","o","n","f","i","g",".","j","s">>,
      <<"b","o","w","e","r",".","j","s","o","n">>,
      <<"b","u","i","l","d",".","g","r","a","d","l","e">>,
      <<"b","u","i","l","d",".","g","r","a","d","l","e",".","k","t","s">>,
      <<"c","o","m","p","o","s","e","r",".","j","s","o","n">>,
      <<"c","o","m","p","o","s","e","r",".","l","o","c","k">>,
      <<"c","o","n","f","i","g","u","r","e">>,
      <<"c","o","n","f","i","g","u","r","e",".","a","c">>,
      <<"d","e","s","k","t","o","p",".","i","n","i">>,
      <<"d","o","c","k","e","r","-","c","o","m","p","o","s","e",".","y","a","m","l">>,
      <<"d","o","c","k","e","r","-","c","o","m","p","o","s","e",".","y","m","l">>,
      <<"f","a","v","i","c","o","n",".","i","c","o">>,
      <<"g","o",".","m","o","d">>, <<"g","o",".","s","u","m">>,
      <<"g","r","a","d","l","e",".","p","r","o","p","e","r","t","i","e","s">>,
      <<"j","e","s","t",".","c","o","n","f","i","g",".","j","s">>,
      <<"j","e","s","t",".","c","o","n","f","i","g",".","t","s">>,
      <<"j","s","c","o","n","f","i","g",".","j","s","o","n">>,
      <<"k","a","r","m","a",".","c","o","n","f",".","j","s">>,
      <<"p","a","c","k","a","g","e","-","l","o","c","k",".","j","s","o","n">>,
      <<"p","a","c","k","a","g","e",".","j","s","o","n">>,
      <<"p","a","c","k","a","g","e",".","x","m","l">>,
      <<"p","n","p","m","-","l","o","c","k",".","y","a","m","l">>,
      <<"p","o","e","t","r","y",".","l","o","c","k">>,
      <<"p","o","m",".","x","m","l">>,
      <<"p","r","o","t","r","a","c","t","o","r",".","c","o","n","f",".","j","s">>,
      <<"p","y","p","r","o","j","e","c","t",".","t","o","m","l">>,
      <<"r","e","q","u","i","r","e","m","e","n","t","s","-","d","e","v",".","t","x","t">>,
      <<"r","e","q","u","i","r","e","m","e","n","t","s",".","t","x","t">>,
      <<"r","o","b","o","t","s",".","t","x","t">>,
      <<"r","o","l","l","u","p",".","c","o","n","f","i","g",".","j","s">>,
      <<"s","e","t","u","p",".","c","f","g">>,
      <<"s","e","t","u","p",".","p","y">>,
      <<"s","i","t","e","m","a","p",".","x","m","l">>,
      <<"t","s","c","o","n","f","i","g",".","j","s","o","n">>,
      <<"v","i","t","e",".","c","o","n","f","i","g",".","j","s">>,
      <<"w","e","b","p","a","c","k",".","c","o","n","f","i","g",".","j","s">>,
      <<"y","a","r","n",".","l","o","c","k">> }

\* str.lower() on one character
LowerChar(c) ==
    CASE c = "A" -> "a" []
        c = "B" -> "b" []
        c = "C" -> "c" []
        c = "D" -> "d" []
        c = "E" -> "e" []
        c = "F" -> "f" []
        c = "G" -> "g" []
        c = "H" -> "h" []
        c = "I" -> "i" []
        c = "J" -> "j" []
        c = "K" -> "k" []
        c = "L" -> "l" []
        c = "M" -> "m" []
        c = "N" -> "n" []
        c = "O" -> "o" []
        c = "P" -> "p" []
        c = "Q" -> "q" []
        c = "R" -> "r" []
        c = "S" -> "s" []
        c = "T" -> "t" []
        c = "U" -> "u" []
        c = "V" -> "v" []
        c = "W" -> "w" []
        c = "X" -> "x" []
        c = "Y" -> "y" []
        c = "Z" -> "z" []
        OTHER -> c

\* str.lower()
lower(s) == [i \in 1..Len(s) |-> LowerChar(s[i])]

\* str.startswith('.')
startswith_dot(s) == Len(s) >= 1 /\ s[1] = "."

\* PurePath.name: the last segment, empty for the empty path
name(p) == IF p = <<>> THEN <<>> ELSE p[Len(p)]

\* str.rfind('.'), as a 1-based position, 0 when there is no '.'
rfind_dot(s) ==
    LET dots == {i \in 1..Len(s) : s[i] = "."}
    IN  IF dots = {} THEN 0 ELSE CHOOSE i \in dots : \A j \in dots : j <= i

\* PurePath.suffix: the part of the name from its last '.', when that '.' is
\* neither the first nor the last character of the name
suffix(p) ==
    LET n == name(p)
        i == rfind_dot(n)
    IN  IF 1 < i /\ i < Len(n) THEN SubSeq(n, i, Len(n)) ELSE <<>>

DOT == <<".">>
DOTDOT == <<".", ".">>

\* part == path_obj.name: the test that lets a hidden segment through
IsPathName(part, p, i) == part = name(p)

\* one iteration of the loop over path_obj.parts: "exclude" is return True,
\* "next" goes on with the following segment
PartDecision(p, i) ==
    LET part == p[i]
    IN  IF startswith_dot(part) /\ part # DOT /\ part # DOTDOT
        THEN IF IsPathName(part, p, i) /\ suffix(p) # <<>>
             THEN IF lower(suffix(p)) \in SOURCE_EXTENSIONS
                  THEN "next"
                  ELSE IF lower(part) \in EXCLUDED_DIRS THEN "exclude" ELSE "next"
             ELSE "exclude"
        ELSE IF lower(part) \in EXCLUDED_DIRS THEN "exclude" ELSE "next"

RECURSIVE PartsLoop(_, _)
PartsLoop(p, i) ==
    IF i > Len(p) THEN FALSE
    ELSE IF PartDecision(p, i) = "exclude" THEN TRUE
    ELSE PartsLoop(p, i + 1)

\* excluded_files_lower = {f.lower() for f in EXCLUDED_FILES}
excluded_files_lower == {lower(f) : f \in EXCLUDED_FILES}

\* the checks on the file's name and extension
FileChecks(p) ==
    IF suffix(p) # <<>> \/ name(p) # <<>>
    THEN LET file_ext == IF suffix(p) # <<>> THEN lower(suffix(p)) ELSE <<>>
             file_name == name(p)
         IN  IF lower(file_name) \in excluded_files_lower THEN TRUE
             ELSE IF file_ext # <<>> /\ file_ext \in EXCLUDED_EXTENSIONS THEN TRUE
             ELSE IF file_ext = <<>> THEN TRUE
             ELSE IF file_ext \notin SOURCE_EXTENSIONS THEN TRUE
             ELSE FALSE
    ELSE FALSE

should_exclude_path(p) ==
    IF PartsLoop(p, 1) THEN TRUE ELSE FileChecks(p)

\* Bounds of the filter inputs
MaxDepth == 2

Segments ==
    { <<"s","r","c">>, <<".","g","i","t">>, <<"L","i","b">>,
      <<".","a",".","p","y">>, <<"a",".","p","y">>, <<"A",".","P","Y">>,
      <<"s","e","t","u","p",".","p","y">>, <<"M","A","K","E","F","I","L","E">>,
      <<"n","o","t","e","s">>, <<"x",".","P","n","g">>, <<"x",".","f","o","o">>,
      <<".","b","a","s","h","r","c">>, <<".",".">>, <<".","e","n","v",".","t","x","t">>,
      <<"a",".">>, <<"b","u","i","l","d",".","r","s">> }

FilterIdle == path = <<>> /\ excluded = FALSE /\ filter_pc = "idle"

FilterInit ==
    /\ path \in SeqsUpTo(Segments, MaxDepth)
    /\ excluded = FALSE
    /\ filter_pc = "input"

ShouldExcludePath ==
    /\ filter_pc = "input"
    /\ excluded' = should_exclude_path(path)
    /\ filter_pc' = "done"
    /\ UNCHANGED path

-----------------------------------------------------------------------------
(* Chunker: pipeline_utils.chunk_code                                      *)
(*                                                                         *)
(* A file content is a sequence of tokens: NL is one line break, a         *)
(* positive number n is a run of n characters none of which is a line      *)
(* break.  Adjacent runs concatenate.  A line is represented by its        *)
(* length in characters.                                                   *)

CHUNK_SIZE == 12000

NL == 0

\* Bounds of the chunker inputs
MaxTokens == 5
RunLengths == {1, 5999, 11999, 12000}
Tokens == {NL} \cup RunLengths

FilePath == "src/main.py"

\* code.split('\n'): the lines between the line breaks; never empty
RECURSIVE SplitLines(_, _)
SplitLines(toks, acc) ==
    IF toks = <<>> THEN acc
    ELSE IF Head(toks) = NL
         THEN SplitLines(Tail(toks), Append(acc, 0))
         ELSE SplitLines(Tail(toks),
                         [acc EXCEPT ![Len(acc)] = acc[Len(acc)] + Head(toks)])

split(c) == SplitLines(c, <<0>>)

\* len(line + '\n')
line_size(line) == line + 1

\* the test that closes the pending buffer before a line is added
FlushOnOverflow_M(current_chunk_size, size, current_chunk_lines) ==
    current_chunk_size > CHUNK_SIZE /\ current_chunk_lines # <<>>

FlushNeeded(current_chunk_size, size, current_chunk_lines) ==
    current_chunk_size + size > CHUNK_SIZE /\ current_chunk_lines # <<>>

\* line_offset = end_line + 1
NextOffset_M(end_line) == end_line

NextOffset(end_line) == end_line + 1

\* the chunk dictionary built from the pending buffer
\* actual_line_num = start_line + idx, for the idx-th line of the buffer
\* (counted from 1 here, from 0 by enumerate)
ActualLineNum_M(start_line, idx) == idx

ActualLineNum(start_line, idx) == start_line + (idx - 1)

MakeChunk(file_path, chunk_id, line_offset, current_chunk_lines) ==
    LET start_line == line_offset
        end_line   == line_offset + Len(current_chunk_lines) - 1
    IN  [file_path    |-> file_path,
         chunk_id     |-> chunk_id,
         start_line   |-> start_line,
         end_line     |-> end_line,
         code_snippet |->
            [file  |-> file_path,
             first |-> start_line,
             last  |-> end_line,
             numbered_lines |->
                [idx \in 1..Len(current_chunk_lines) |->
                    [num |-> ActualLineNum(start_line, idx),
                     text |-> current_chunk_lines[idx]]]]]

\* the loop state before the first line
LoopStart ==
    [chunks |-> <<>>, chunk_id |-> 1, current_chunk_lines |-> <<>>,
     current_chunk_size |-> 0, line_offset |-> 1]

\* current_chunk_size += line_size
Accumulate_M(current_chunk_size, size) == current_chunk_size + size + 1

Accumulate(current_chunk_size, size) == current_chunk_size + size

\* one iteration of the loop over the lines
LoopBody(file_path, st, line) ==
    LET size == line_size(line)
        flushed ==
            IF FlushNeeded(st.current_chunk_size, size, st.current_chunk_lines)
            THEN LET c == MakeChunk(file_path, st.chunk_id, st.line_offset,
                                    st.current_chunk_lines)
                 IN  [chunks |-> Append(st.chunks, c),
                      chunk_id |-> st.chunk_id + 1,
                      current_chunk_lines |-> <<>>,
                      current_chunk_size |-> 0,
                      line_offset |-> NextOffset(c.end_line)]
            ELSE st
    IN  [flushed EXCEPT !.current_chunk_lines = Append(@, line),
                        !.current_chunk_size = Accumulate(@, size)]

RECURSIVE LoopFrom(_, _, _, _)
LoopFrom(file_path, lines, i, st) ==
    IF i > Len(lines) THEN st
    ELSE LoopFrom(file_path, lines, i + 1, LoopBody(file_path, st, lines[i]))

\* if current_chunk_lines: the remaining lines become the final chunk
FinalChunkNeeded_M(current_chunk_lines) == FALSE

FinalChunkNeeded(current_chunk_lines) == current_chunk_lines # <<>>

chunk_code(file_path, c) ==
    LET st == LoopFrom(file_path, split(c), 1, LoopStart)
    IN  IF FinalChunkNeeded(st.current_chunk_lines)
        THEN Append(st.chunks,
                    MakeChunk(file_path, st.chunk_id, st.line_offset,
                              st.current_chunk_lines))
        ELSE st.chunks

ChunkIdle == code = <<>> /\ file_chunks = <<>> /\ chunk_pc = "idle"

\* Files of 25,000 bytes: up to MaxLinesBefore lines with lengths of a set,
\* each with its line break, then a last line that brings the content to
\* FileBytes; the last line may be longer than CHUNK_SIZE
FileBytes == 25000
MaxLinesBefore == 4
LineLengths == {0, 500, 6000, 8000, 11500, 12000}

RECURSIVE LinesToTokens(_)
LinesToTokens(lines) ==
    IF lines = <<>> THEN <<>>
    ELSE (IF Head(lines) = 0 THEN <<NL>> ELSE <<Head(lines), NL>>)
            \o LinesToTokens(Tail(lines))

BytesOf(lines) == SumSeq(lines) + Len(lines)

WithLastLine(lines) ==
    LET last == FileBytes - BytesOf(lines)
    IN  LinesToTokens(lines) \o (IF last = 0 THEN <<>> ELSE <<last>>)

SizedFiles ==
    {WithLastLine(lines) : lines \in
        {l \in SeqsUpTo(LineLengths, MaxLinesBefore) : FileBytes - BytesOf(l) >= 0}}

SizedInit ==
    /\ code \in SizedFiles
    /\ file_chunks = <<>>
    /\ chunk_pc = "input"

ChunkInit ==
    /\ code \in SeqsUpTo(Tokens, MaxTokens)
    /\ file_chunks = <<>>
    /\ chunk_pc = "input"

ChunkCode ==
    /\ chunk_pc = "input"
    /\ file_chunks' = chunk_code(FilePath, code)
    /\ chunk_pc' = "done"
    /\ UNCHANGED code

-----------------------------------------------------------------------------
(* ReportAggregator: the counting in controllers.pipeline.run_pipeline and *)
(* in mongo_utils.save_vulnerability_report                                *)
(*                                                                         *)
(* A scan result is a VulnerabilityScanResult; of a Vulnerability only     *)
(* the severity string is kept.  severity is declared str: any string is   *)
(* accepted by the schema.                                                 *)

\* Bounds of the aggregation inputs
MaxResults == 2
MaxFindings == 2

SeverityStrings == {"Critical", "High", "Medium", "Low", "Info", "critical"}

Vulnerability(sev) == [severity |-> sev]

VulnerabilityScanResult(id, file, vulns, status, msg) ==
    [chunk_id |-> id, file_path |-> file, vulnerabilities |-> vulns,
     scan_status |-> status, error_message |-> msg]

\* sum(1 for v in vulns if v.severity == sev)
CountSeverity(vulns, sev) ==
    Cardinality({i \in 1..Len(vulns) : vulns[i].severity = sev})

\* all_vulnerabilities: the findings of all scan results, in order
RECURSIVE Flatten(_)
Flatten(results) ==
    IF results = <<>> THEN <<>>
    ELSE Head(results).vulnerabilities \o Flatten(Tail(results))

\* total_vulns = sum(len(result['vulnerabilities']) for result in ...)
TotalVulns(results) ==
    SumSeq([i \in 1..Len(results) |-> Len(results[i].vulnerabilities)])

\* the vulnerability_report dictionary of run_pipeline
PipelineReport(results) ==
    [total_vulnerabilities |-> TotalVulns(results),
     severity_breakdown |->
        [critical |-> CountSeverity(Flatten(results), "Critical"),
         high     |-> CountSeverity(Flatten(results), "High"),
         medium   |-> CountSeverity(Flatten(results), "Medium"),
         low      |-> CountSeverity(Flatten(results), "Low"),
         info     |-> CountSeverity(Flatten(results), "Info")],
     scan_results |-> results]

\* the counting fields of the VulnerabilityReport of save_vulnerability_report
ReportCounts(results) ==
    LET all_vulnerabilities == Flatten(results)
    IN  [total_vulnerabilities |-> Len(all_vulnerabilities),
         critical_count |-> CountSeverity(all_vulnerabilities, "Critical"),
         high_count     |-> CountSeverity(all_vulnerabilities, "High"),
         medium_count   |-> CountSeverity(all_vulnerabilities, "Medium"),
         low_count      |-> CountSeverity(all_vulnerabilities, "Low"),
         info_count     |-> CountSeverity(all_vulnerabilities, "Info"),
         scan_results   |-> results]

FindingLists == SeqsUpTo({Vulnerability(s) : s \in SeverityStrings}, MaxFindings)

ScanResultLists ==
    LET n == MaxResults
    IN  UNION {[1..k -> FindingLists] : k \in 0..n}

\* numbers the findings lists as the scan results of chunks 1, 2, ...
AsScanResults(lists) ==
    [i \in 1..Len(lists) |->
        VulnerabilityScanResult(i, FilePath, lists[i], "completed", "")]

AggIdle == scan_input = <<>> /\ agg_report = <<>> /\ agg_doc = <<>>

AggInit ==
    /\ scan_input \in {AsScanResults(l) : l \in ScanResultLists}
    /\ agg_report = <<>>
    /\ agg_doc = <<>>

AggregateInPipeline ==
    /\ agg_report = <<>>
    /\ agg_report' = <<PipelineReport(scan_input)>>
    /\ UNCHANGED <<scan_input, agg_doc>>

AggregateInSave ==
    /\ agg_doc = <<>>
    /\ agg_doc' = <<ReportCounts(scan_input)>>
    /\ UNCHANGED <<scan_input, agg_report>>

-----------------------------------------------------------------------------
(* Store: mongo_utils.save_pipeline_result, save_vulnerability_report      *)
(*                                                                         *)
(* A collection is the sequence of its documents in insertion order.  A    *)
(* save_* call is a coroutine: it is suspended at "find" while find_one    *)
(* runs and at "write" while update_one / insert_one runs; other tasks     *)
(* take steps in between.  Optional values are sequences of length 0 or 1. *)

\* Bounds of the store
NumTasks == 2
MaxSaves == 2
MaxClock == 2

Tasks == 1..NumTasks

\* (user_id, github_id, repo_id)
K1 == <<"u1", "g1", "r1">>
K2 == <<"u2", "g2", "r1">>
Keys == {K1, K2}

NoSave ==
    [pc |-> "none", kind |-> "none", key |-> <<>>, repo_name |-> "",
     chunks |-> <<>>, repo_path |-> "", scan_results |-> <<>>,
     model |-> <<>>, existing |-> <<>>, update_data |-> <<>>, raised |-> FALSE]

\* PipelineResult(...).model_dump()
PipelineResult(key, repo_name, chunks, repo_path, created_at, updated_at) ==
    [user_id |-> key[1], github_id |-> key[2], repo_id |-> key[3],
     repo_name |-> repo_name, chunks |-> chunks, total_chunks |-> Len(chunks),
     repo_path |-> repo_path, created_at |-> created_at, updated_at |-> updated_at]

\* VulnerabilityReport(...).model_dump()
VulnerabilityReport(key, repo_name, scan_results, t) ==
    LET counts == ReportCounts(scan_results)
    IN  [user_id |-> key[1], github_id |-> key[2], repo_id |-> key[3],
         repo_name |-> repo_name,
         total_vulnerabilities |-> counts.total_vulnerabilities,
         critical_count |-> counts.critical_count,
         high_count |-> counts.high_count,
         medium_count |-> counts.medium_count,
         low_count |-> counts.low_count,
         info_count |-> counts.info_count,
         scan_results |-> scan_results,
         scan_completed_at |-> t, created_at |-> t, updated_at |-> t]

\* the documents find_one may return for the key: any one of the matching
\* documents, none when there is no match
Matching(coll, key) ==
    {i \in 1..Len(coll) :
        /\ coll[i].user_id = key[1]
        /\ coll[i].github_id = key[2]
        /\ coll[i].repo_id = key[3]}

find_one(coll, key) ==
    IF Matching(coll, key) = {} THEN {<<>>}
    ELSE {<<coll[i]>> : i \in Matching(coll, key)}

\* update_data["created_at"] = existing.get("created_at", datetime.now())
PreserveCreatedAt_M(update_data, existing) == update_data

PreserveCreatedAt(update_data, existing) ==
    [update_data EXCEPT !.created_at = existing.created_at]

\* update_data of the "if existing" branch
UpdateData_M(model, existing, t) ==
    [f \in DOMAIN model |->
        IF f = "created_at" THEN existing.created_at
        ELSE IF f = "updated_at" THEN t
        ELSE IF f \in {"total_vulnerabilities", "high_count"}
             THEN model[f] + existing[f]
        ELSE model[f]]

UpdateData(model, existing, t) ==
    [PreserveCreatedAt(model, existing) EXCEPT !.updated_at = t]

\* update_one({"_id": id}, {"$set": update_data})
update_one(coll, id, update_data) ==
    [i \in 1..Len(coll) |->
        IF coll[i]._id = id
        THEN [f \in DOMAIN coll[i] |->
                 IF f \in DOMAIN update_data THEN update_data[f] ELSE coll[i][f]]
        ELSE coll[i]]

\* insert_one(document): the document gets a fresh _id
insert_one(coll, document) ==
    Append(coll, [f \in DOMAIN document \cup {"_id"} |->
                     IF f = "_id" THEN Len(coll) + 1 ELSE document[f]])

\* the frame of a save_pipeline_result call, suspended at find_one
SavePipelineResultCall(key, repo_name, chunks, repo_path) ==
    [NoSave EXCEPT !.pc = "find", !.kind = "chunks", !.key = key,
                   !.repo_name = repo_name, !.chunks = chunks,
                   !.repo_path = repo_path]

\* the frame of a save_vulnerability_report call, suspended at find_one: the
\* report is built, with its timestamps, before the lookup
SaveVulnerabilityReportCall(key, repo_name, scan_results, t) ==
    [NoSave EXCEPT !.pc = "find", !.kind = "report", !.key = key,
                   !.repo_name = repo_name, !.scan_results = scan_results,
                   !.model = <<VulnerabilityReport(key, repo_name, scan_results, t)>>]

Collection(kind) ==
    IF kind = "chunks" THEN pipeline_results ELSE vulnerability_reports

\* find_one returns; the caller builds what it is going to write
AfterFind(frame, existing, t) ==
    LET model == IF frame.kind = "chunks"
                 THEN PipelineResult(frame.key, frame.repo_name, frame.chunks,
                                     frame.repo_path, t, t)
                 ELSE frame.model[1]
    IN  [frame EXCEPT !.pc = "write",
                      !.model = <<model>>,
                      !.existing = existing,
                      !.update_data = IF existing = <<>> THEN <<>>
                                      ELSE <<UpdateData(model, existing[1], t)>>]

\* the collection after the update_one or insert_one of the call
AfterWrite(coll, frame) ==
    IF frame.existing # <<>>
    THEN update_one(coll, frame.existing[1]._id, frame.update_data[1])
    ELSE insert_one(coll, frame.model[1])

FindOne(t) ==
    /\ save[t].pc = "find"
    /\ running = 0
    /\ \E existing \in find_one(Collection(save[t].kind), save[t].key) :
          save' = [save EXCEPT ![t] = AfterFind(save[t], existing, now)]
    /\ UNCHANGED <<pipeline_results, vulnerability_reports, now, saves>>

WriteOne(t) ==
    /\ save[t].pc = "write"
    /\ running = 0
    /\ IF save[t].kind = "chunks"
       THEN /\ pipeline_results' = AfterWrite(pipeline_results, save[t])
            /\ UNCHANGED vulnerability_reports
       ELSE /\ vulnerability_reports' = AfterWrite(vulnerability_reports, save[t])
            /\ UNCHANGED pipeline_results
    /\ save' = [save EXCEPT ![t].pc = "returned", ![t].raised = FALSE]
    /\ UNCHANGED <<now, saves>>

\* the store is unavailable: find_one, update_one or insert_one raises and
\* save_* re-raises
StoreFails(t) ==
    /\ save[t].pc \in {"find", "write"}
    /\ running = 0
    /\ save' = [save EXCEPT ![t].pc = "returned", ![t].raised = TRUE]
    /\ UNCHANGED <<pipeline_results, vulnerability_reports, now, saves>>

Tick ==
    /\ now < MaxClock
    /\ now' = now + 1
    /\ UNCHANGED <<pipeline_results, vulnerability_reports, save, saves>>

\* Direct callers of the two save functions
SampleRepoName(v) == IF v = 1 THEN "alice/app" ELSE "bob/app"
SampleChunks(v) == IF v = 1 THEN <<>> ELSE chunk_code(FilePath, <<1>>)
SampleScanResults(v) ==
    IF v = 1 THEN <<>> ELSE AsScanResults(<<<<Vulnerability("High")>>>>)
SampleValues == {1, 2}

CallSavePipelineResult(t) ==
    /\ save[t].pc = "none"
    /\ saves < MaxSaves
    /\ \E key \in Keys, v \in SampleValues :
          save' = [save EXCEPT ![t] =
                      SavePipelineResultCall(key, SampleRepoName(v), SampleChunks(v),
                                             "github_repos/app")]
    /\ saves' = saves + 1
    /\ UNCHANGED <<pipeline_results, vulnerability_reports, now>>

CallSaveVulnerabilityReport(t) ==
    /\ save[t].pc = "none"
    /\ saves < MaxSaves
    /\ \E key \in Keys, v \in SampleValues :
          save' = [save EXCEPT ![t] =
                      SaveVulnerabilityReportCall(key, SampleRepoName(v),
                                                  SampleScanResults(v), now)]
    /\ saves' = saves + 1
    /\ UNCHANGED <<pipeline_results, vulnerability_reports, now>>

SaveReturns(t) ==
    /\ save[t].pc = "returned"
    /\ save' = [save EXCEPT ![t] = NoSave]
    /\ UNCHANGED <<pipeline_results, vulnerability_reports, now, saves>>

StoreIdle ==
    /\ pipeline_results = <<>>
    /\ vulnerability_reports = <<>>
    /\ now = 0
    /\ save = [t \in Tasks |-> NoSave]
    /\ saves = 0

StoreInit == StoreIdle

-----------------------------------------------------------------------------
(* AnalysisDispatcher: helpers.vulnerability_detector.analyze_repository   *)
(*                                                                         *)
(* One analysis call per chunk, at most MaxInFlight of them in flight; a   *)
(* call that fails yields an error result; each call writes the slot of    *)
(* its own chunk.                                                          *)

\* Bounds of the dispatch inputs
MaxChunks == 3
MaxInFlight == 2

FailureKinds == {"timeout", "malformed response", "transport error"}

FileName(k) ==
    CASE k = 1 -> "a.py" [] k = 2 -> "b.py" [] k = 3 -> "c.py" [] OTHER -> "d.py"

\* chunks of several files, two chunks per file
RECURSIVE ChunkPool(_)
ChunkPool(files) ==
    IF files = 0 THEN <<>>
    ELSE ChunkPool(files - 1) \o chunk_code(FileName(files), <<11999, NL, 11999>>)

ChunkLists == {SubSeq(ChunkPool(MaxChunks), 1, n) : n \in 0..MaxChunks}

\* the scan result of a call that returned findings
CompletedResult(chunk, findings) ==
    VulnerabilityScanResult(chunk.chunk_id, chunk.file_path, findings,
                            "completed", "")

\* the scan result of a call that failed
ErrorResult_M(chunk, kind) ==
    VulnerabilityScanResult(chunk.chunk_id, chunk.file_path, <<>>, "error", "")

ErrorResult(chunk, kind) ==
    VulnerabilityScanResult(chunk.chunk_id, chunk.file_path, <<>>, "error", kind)

\* the slot the call of chunk i writes
ResultSlot_M(i, state) == Cardinality({j \in DOMAIN state : state[j] = "done"}) + 1

ResultSlot(i, state) == i

InFlight == {i \in DOMAIN disp_state : disp_state[i] = "inflight"}

DispIdle ==
    /\ disp_chunks = <<>>
    /\ disp_findings = <<>>
    /\ disp_failure = <<>>
    /\ disp_state = <<>>
    /\ disp_results = <<>>
    /\ disp_out = <<>>

DispInit ==
    /\ disp_chunks \in ChunkLists
    /\ disp_findings \in [1..Len(disp_chunks) -> {<<>>, <<Vulnerability("High")>>}]
    /\ disp_failure \in [1..Len(disp_chunks) -> {"none"} \cup FailureKinds]
    /\ disp_state = [i \in 1..Len(disp_chunks) |-> "pending"]
    /\ disp_results = [i \in 1..Len(disp_chunks) |-> <<>>]
    /\ disp_out = <<>>

StartCall(i) ==
    /\ disp_out = <<>>
    /\ disp_state[i] = "pending"
    /\ Cardinality(InFlight) < MaxInFlight
    /\ disp_state' = [disp_state EXCEPT ![i] = "inflight"]
    /\ UNCHANGED <<disp_chunks, disp_findings, disp_failure, disp_results, disp_out>>

CompleteCall(i) ==
    /\ disp_state[i] = "inflight"
    /\ disp_failure[i] = "none"
    /\ disp_results' =
          [disp_results EXCEPT ![ResultSlot(i, disp_state)] =
              <<CompletedResult(disp_chunks[i], disp_findings[i])>>]
    /\ disp_state' = [disp_state EXCEPT ![i] = "done"]
    /\ UNCHANGED <<disp_chunks, disp_findings, disp_failure, disp_out>>

FailCall(i) ==
    /\ disp_state[i] = "inflight"
    /\ disp_failure[i] # "none"
    /\ disp_results' =
          [disp_results EXCEPT ![ResultSlot(i, disp_state)] =
              <<ErrorResult(disp_chunks[i], disp_failure[i])>>]
    /\ disp_state' = [disp_state EXCEPT ![i] = "done"]
    /\ UNCHANGED <<disp_chunks, disp_findings, disp_failure, disp_out>>

ReturnResults ==
    /\ disp_out = <<>>
    /\ \A i \in DOMAIN disp_state : disp_state[i] = "done"
    /\ disp_out' = <<[i \in 1..Len(disp_results) |-> disp_results[i][1]]>>
    /\ UNCHANGED <<disp_chunks, disp_findings, disp_failure, disp_state, disp_results>>

-----------------------------------------------------------------------------
(* RepositoryCloner: pipeline_utils.clone_repository                       *)
(*                                                                         *)
(* A repository URL is a sequence of characters and of words that hold no  *)
(* '/'.  The environment of a call says whether the target directory is    *)
(* there and how the steps outside the function end: the mkdir of the base *)
(* directory and the git process.                                          *)

HTTP == <<"h", "t", "t", "p">>
GITHUB_PREFIX == <<"h", "t", "t", "p", "s", ":", "/", "/", "github.com", "/">>

\* repo_url.startswith('http')
startswith_http(repo_url) == Len(repo_url) >= 4 /\ SubSeq(repo_url, 1, 4) = HTTP

\* '/' in repo_url
has_slash(repo_url) == \E i \in 1..Len(repo_url) : repo_url[i] = "/"

\* 'github.com' in repo_url
has_github(repo_url) == \E i \in 1..Len(repo_url) : repo_url[i] = "github.com"

\* f"https://github.com/{repo_url}.git"
NormalizedUrl(repo_url) == GITHUB_PREFIX \o repo_url \o <<".git">>

\* repo_url.replace('https://github.com/', f'https://{access_token}@github.com/')
\* on a URL that starts with the prefix
WithToken(repo_url, access_token) ==
    IF Len(repo_url) >= Len(GITHUB_PREFIX)
          /\ SubSeq(repo_url, 1, Len(GITHUB_PREFIX)) = GITHUB_PREFIX
    THEN <<"h", "t", "t", "p", "s", ":", "/", "/", access_token, "@", "github.com", "/">>
            \o SubSeq(repo_url, Len(GITHUB_PREFIX) + 1, Len(repo_url))
    ELSE repo_url

CloneUrl(repo_url, access_token) ==
    IF access_token # "" /\ has_github(repo_url)
    THEN WithToken(repo_url, access_token) ELSE repo_url

CloneResult(success, target_path, message) ==
    [success |-> success, path |-> target_path, message |-> message]

\* how the mkdir of the base directory and the git process can end
MkdirOutcomes == {"ok", "PermissionError"}
GitOutcomes ==
    {"ok", "TimeoutExpired", "CalledProcessError", "FileNotFoundError", "OSError"}

\* the except clauses of clone_repository: the result returned for an
\* exception raised in the try block
ExceptClauses_M(exc) ==
    IF exc = "TimeoutExpired"
    THEN <<CloneResult(FALSE, <<>>, "Clone operation timed out after 5 minutes")>>
    ELSE IF exc = "CalledProcessError"
    THEN <<CloneResult(FALSE, <<>>, "Failed to clone repository")>>
    ELSE <<>>

ExceptClauses(exc) ==
    IF exc = "TimeoutExpired"
    THEN <<CloneResult(FALSE, <<>>, "Clone operation timed out after 5 minutes")>>
    ELSE IF exc = "CalledProcessError"
    THEN <<CloneResult(FALSE, <<>>, "Failed to clone repository")>>
    ELSE IF exc = "FileNotFoundError"
    THEN <<CloneResult(FALSE, <<>>, "Git is not installed or not found in PATH")>>
    ELSE <<CloneResult(FALSE, <<>>, "Unexpected error during clone")>>

\* what an exception raised in the try block leads to: the result of its
\* except clause, or the exception itself when no clause takes it
Caught(exc, target) ==
    IF ExceptClauses(exc) # <<>>
    THEN [raised |-> "none", result |-> ExceptClauses(exc), target |-> target,
          clone_url |-> <<>>]
    ELSE [raised |-> exc, result |-> <<>>, target |-> target, clone_url |-> <<>>]

\* the directory git leaves behind: the clone when it ends well, a partial
\* clone when it is killed at the timeout, nothing when it fails by itself
\* or never starts
TargetAfterGit(git) ==
    IF git = "ok" THEN "complete"
    ELSE IF git = "TimeoutExpired" THEN "partial"
    ELSE "absent"

\* clone_repository(repo_url, target_dir_name, base_dir, access_token) in
\* an environment: target is "absent", "partial" or "complete"
clone_repository(repo_url, access_token, target, mkdir, git) ==
    IF mkdir # "ok" THEN Caught(mkdir, target)
    ELSE IF ~startswith_http(repo_url) /\ ~has_slash(repo_url)
    THEN [raised |-> "none",
          result |-> <<CloneResult(FALSE, <<>>, "Invalid repo URL format")>>,
          target |-> target, clone_url |-> <<>>]
    ELSE LET url == IF startswith_http(repo_url) THEN repo_url
                    ELSE NormalizedUrl(repo_url)
         IN  IF target # "absent"
             THEN [raised |-> "none",
                   result |-> <<CloneResult(TRUE, <<"target">>,
                                            "Repository already exists")>>,
                   target |-> target, clone_url |-> <<>>]
             ELSE IF git = "ok"
             THEN [raised |-> "none",
                   result |-> <<CloneResult(TRUE, <<"target">>,
                                            "Successfully cloned repository")>>,
                   target |-> TargetAfterGit(git),
                   clone_url |-> CloneUrl(url, access_token)]
             ELSE [Caught(git, TargetAfterGit(git)) EXCEPT
                      !.clone_url = CloneUrl(url, access_token)]

RepoUrls ==
    { <<"alice", "/", "app">>, <<"app">>, <<>>,
      <<"h", "t", "t", "p", "s", ":", "/", "/", "github.com", "/", "alice", "/", "app">>,
      <<"h", "t", "t", "p", "i", "e", "/", "cli">> }

AccessTokens == {"", "token"}

TargetStates == {"absent", "partial", "complete"}

CloneCalls ==
    [repo_url : RepoUrls, access_token : AccessTokens, target : TargetStates,
     mkdir : MkdirOutcomes, git : GitOutcomes]

CloneRepositoryCall ==
    /\ clone_call # <<>>
    /\ clone_ret = <<>>
    /\ clone_ret' = <<clone_repository(clone_call[1].repo_url,
                                        clone_call[1].access_token,
                                        clone_call[1].target,
                                        clone_call[1].mkdir, clone_call[1].git)>>
    /\ UNCHANGED clone_call

CloneIdle == clone_call = <<>> /\ clone_ret = <<>>

CloneInit ==
    /\ clone_call \in {<<c>> : c \in CloneCalls}
    /\ clone_ret = <<>>

-----------------------------------------------------------------------------
(* PipelineOrchestrator: controllers.pipeline.run_pipeline                 *)
(*                                                                         *)
(* A repository name is the list of its parts between '/'.  A directory    *)
(* under github_repos is absent (<<>>) or holds the clone of a repository, *)
(* complete or partial.  The code between two awaits of a task runs with   *)
(* the event loop held (running = t); other tasks take steps only while    *)
(* the loop is free.                                                       *)

\* Bounds of the pipeline
MaxRuns == 2

ALICE_APP == <<"alice", "app">>
BOB_APP == <<"bob", "app">>
BARE_APP == <<"app">>
CAROL_WEB == <<"carol", "web">>

RepoNames == {ALICE_APP, BOB_APP, BARE_APP, CAROL_WEB}

\* github_repo_name.split('/')[-1]
last_part(repo_name) == repo_name[Len(repo_name)]

Dirs == {last_part(n) : n \in RepoNames}

Clone(repo_name, complete) == [repo |-> repo_name, complete |-> complete]

\* what a directory of github_repos may hold when the first run starts:
\* nothing, or for github_repos/app a clone of bob/app left there before
InitialDirContents(dir) ==
    IF dir = last_part(BOB_APP) THEN {<<>>, <<Clone(BOB_APP, TRUE)>>} ELSE {<<>>}

\* the callers: the repository each asks for and its key
Requests ==
    { [github_repo_name |-> ALICE_APP, key |-> K1],
      [github_repo_name |-> BARE_APP, key |-> K1],
      [github_repo_name |-> CAROL_WEB, key |-> K2] }

\* the files of the repositories: relative path and content
RepoTree(repo_name) ==
    IF repo_name = ALICE_APP
    THEN << [path |-> "main.py", parts |-> <<<<"m","a","i","n",".","p","y">>>>,
             content |-> <<11999, NL, 11999>>],
            [path |-> "docs/conf.py",
             parts |-> <<<<"d","o","c","s">>, <<"c","o","n","f",".","p","y">>>>,
             content |-> <<1>>] >>
    ELSE << [path |-> "lib.rs", parts |-> <<<<"l","i","b",".","r","s">>>>,
             content |-> <<1, NL>>] >>

\* extract_source_code on a directory holding a clone: the files the filter
\* lets through; a partial clone has no checked-out file
extract_source_code(clone) ==
    IF clone.complete
    THEN SelectSeq(RepoTree(clone.repo), LAMBDA f : ~should_exclude_path(f.parts))
    ELSE <<>>

RECURSIVE ChunkAll(_)
ChunkAll(source_files) ==
    IF source_files = <<>> THEN <<>>
    ELSE chunk_code(Head(source_files).path, Head(source_files).content)
            \o ChunkAll(Tail(source_files))

process_repository(clone) == ChunkAll(extract_source_code(clone))

\* the list analyze_repository returns for the chunks, when it returns: a
\* completed result with one finding for the first chunk, an error result
\* for the others
AnalysisResults(chunks) ==
    {[i \in 1..Len(chunks) |->
        IF i = 1 THEN CompletedResult(chunks[i], <<Vulnerability("High")>>)
        ELSE ErrorResult(chunks[i], "timeout")]}

NoRun ==
    [pc |-> "idle", github_repo_name |-> <<>>, key |-> <<>>,
     cleanup_path |-> <<>>, chunks |-> <<>>, vulnerability_report |-> <<>>,
     result |-> <<>>, pending |-> "none",
     clone_attempted |-> FALSE, reused |-> <<>>, cleanup |-> "none",
     dir_gone |-> FALSE, stages |-> <<>>, raised |-> "none",
     scan_results |-> <<>>, saved |-> <<>>, root |-> "none"]

FailureResult(message) ==
    [success |-> FALSE, message |-> message, repo_path |-> "",
     total_chunks |-> 0, chunks |-> <<>>, vulnerability_report |-> <<>>]

SuccessResult(repo_path, chunks, vulnerability_report) ==
    [success |-> TRUE, message |-> "Successfully processed repository",
     repo_path |-> repo_path, total_chunks |-> Len(chunks), chunks |-> chunks,
     vulnerability_report |-> vulnerability_report]

AwaitPcs == {"save_chunks", "analysis", "save_report"}
EndPcs == {"done", "raised", "cancelled"}

\* the loop is free after a step that ends at an await; when the call ends,
\* its caller goes on in the same task
Holder(t, pc) == IF pc \in AwaitPcs THEN 0 ELSE t

\* where a cancelled await continues: the finally block
AfterCancel_M == "cancelled"

AfterCancel == "finally"

RepoDir(t) == last_part(run[t].github_repo_name)

\* cleanup_path of the else branch: the directory that already existed
CleanupPathWhenReused_M(dir) == <<>>

CleanupPathWhenReused(dir) == <<dir>>

\* a request arrives and its task calls run_pipeline; the tasks are taken in
\* the order of their numbers
RunPipeline(t) ==
    /\ run[t].pc = "idle"
    /\ \A u \in Tasks : u < t => run[u].pc # "idle"
    /\ running = 0
    /\ runs < MaxRuns
    /\ \E request \in Requests :
          run' = [run EXCEPT ![t] =
                     [NoRun EXCEPT !.pc = "mkdir",
                                   !.github_repo_name = request.github_repo_name,
                                   !.key = request.key]]
    /\ running' = t
    /\ runs' = runs + 1
    /\ UNCHANGED <<fs, storeVars>>

\* base_dir.mkdir(exist_ok=True): outside every try block
Mkdir(t) ==
    /\ run[t].pc = "mkdir"
    /\ running = t
    /\ \E raises \in BOOLEAN :
          LET pc == IF raises THEN "raised" ELSE "exists"
          IN  /\ run' = [run EXCEPT ![t].pc = pc]
              /\ running' = Holder(t, pc)
    /\ UNCHANGED <<fs, runs, storeVars>>

\* if not repo_path.exists(): ... else: cleanup_path = repo_path
Exists(t) ==
    /\ run[t].pc = "exists"
    /\ running = t
    /\ IF fs[RepoDir(t)] # <<>>
       THEN run' = [run EXCEPT ![t].pc = "process",
                               ![t].cleanup_path = CleanupPathWhenReused(RepoDir(t)),
                               ![t].reused = fs[RepoDir(t)],
                               ![t].stages = Append(@, "reuse")]
       ELSE run' = [run EXCEPT ![t].pc = "clone"]
    /\ UNCHANGED <<fs, running, runs, storeVars>>

\* clone_repository: the outcomes for a repository name and a target
CloneOutcomes(repo_name, target) ==
    IF Len(repo_name) = 1 THEN {"invalid"}
    ELSE IF target # <<>> THEN {"exists"}
    ELSE {"cloned", "failed", "timeout"}

\* where a failed clone continues: the return ahead of the try block
AfterCloneFailure_M == "finally"

AfterCloneFailure == "done"

CloneRepository(t) ==
    /\ run[t].pc = "clone"
    /\ running = t
    /\ \E outcome \in CloneOutcomes(run[t].github_repo_name, fs[RepoDir(t)]) :
          IF outcome \in {"cloned", "exists"}
          THEN /\ fs' = IF outcome = "cloned"
                        THEN [fs EXCEPT ![RepoDir(t)] =
                                 <<Clone(run[t].github_repo_name, TRUE)>>]
                        ELSE fs
               /\ run' = [run EXCEPT ![t].pc = "process",
                                      ![t].cleanup_path = <<RepoDir(t)>>,
                                      ![t].clone_attempted = TRUE,
                                      ![t].stages = Append(@, "clone")]
               /\ running' = t
          ELSE /\ fs' = IF outcome = "timeout"
                        THEN [fs EXCEPT ![RepoDir(t)] =
                                 <<Clone(run[t].github_repo_name, FALSE)>>]
                        ELSE fs
               /\ run' = [run EXCEPT ![t].pc = AfterCloneFailure,
                                      ![t].clone_attempted = TRUE,
                                      ![t].stages = Append(@, "clone"),
                                      ![t].raised = "clone",
                                      ![t].result =
                                         <<FailureResult("Failed to clone repository")>>]
               /\ running' = t
    /\ UNCHANGED <<runs, storeVars>>

\* if not repo_path_obj.exists(): raise ValueError
ExtractRaises_M(dir_content) == FALSE

ExtractRaises(dir_content) == dir_content = <<>>

\* what process_repository meets: the scan and the chunking go through, an
\* error is raised on the way, or the directory has been removed from
\* outside the process since the test of line 37
ProcessOutcomes == {"returns", "raises", "missing"}

\* chunks = process_repository(repo_path), then the await of
\* save_pipeline_result; an exception goes to the outer except and finally
ProcessRepository(t) ==
    /\ run[t].pc = "process"
    /\ running = t
    /\ \E outcome \in ProcessOutcomes :
          LET dir_content == IF outcome = "missing" THEN <<>> ELSE fs[RepoDir(t)]
              root == IF dir_content = <<>> THEN "missing" ELSE "present"
          IN  /\ fs' = [fs EXCEPT ![RepoDir(t)] = dir_content]
              /\ IF outcome = "raises" \/ ExtractRaises(dir_content)
                 THEN /\ run' = [run EXCEPT
                                    ![t].pc = "finally",
                                    ![t].stages = Append(@, "extract"),
                                    ![t].raised = "process",
                                    ![t].root = root,
                                    ![t].result =
                                       <<FailureResult("Error processing repository")>>]
                      /\ UNCHANGED save
                 ELSE LET chunks == IF dir_content = <<>> THEN <<>>
                                    ELSE process_repository(dir_content[1])
                      IN  /\ run' = [run EXCEPT
                                        ![t].pc = "save_chunks",
                                        ![t].chunks = chunks,
                                        ![t].root = root,
                                        ![t].stages = @ \o <<"extract", "chunk">>]
                          /\ save' = [save EXCEPT ![t] =
                                         SavePipelineResultCall(run[t].key,
                                             run[t].github_repo_name, chunks,
                                             RepoDir(t))]
    /\ running' = Holder(t, run'[t].pc)
    /\ UNCHANGED <<runs, pipeline_results, vulnerability_reports, now, saves>>

\* how a save call ended, as the run sees it: the id is printed, or the
\* warning is
SaveOutcome(frame) == [kind |-> frame.kind, raised |-> frame.raised]

\* save_pipeline_result returned or raised: either way the run goes on to
\* the await of analyze_repository
AfterSaveChunks(t) ==
    /\ run[t].pc = "save_chunks"
    /\ running = 0
    /\ save[t].pc = "returned"
    /\ save' = [save EXCEPT ![t] = NoSave]
    /\ run' = [run EXCEPT ![t].pc = "analysis",
                           ![t].saved = Append(@, SaveOutcome(save[t])),
                           ![t].stages = Append(@, "persist chunks")]
    /\ UNCHANGED <<fs, running, runs, pipeline_results, vulnerability_reports,
                   now, saves>>

\* where a return statement inside the try block continues: the finally
\* block
AfterReturn_M == "done"

AfterReturn == "finally"

\* the statements of the analysis try block that can raise before the
\* report is assigned: the dispatch, and the aggregation of its results
AnalysisFailures == {"dispatch", "aggregate"}

\* what the run returns when the analysis try block raised: the except
\* clause prints, vulnerability_report still holds None
AnalysisFailureResult_M(t) == FailureResult("Error during vulnerability detection")

AnalysisFailureResult(t) == SuccessResult(RepoDir(t), run[t].chunks, <<>>)

\* analyze_repository returned: the report is built and the run awaits
\* save_vulnerability_report; or the try block raised: the run returns
\* without report
AfterAnalysis(t) ==
    /\ run[t].pc = "analysis"
    /\ running = 0
    /\ \/ \E scan_results \in AnalysisResults(run[t].chunks) :
             /\ run' = [run EXCEPT ![t].pc = "save_report",
                                    ![t].vulnerability_report =
                                        <<PipelineReport(scan_results)>>,
                                    ![t].scan_results = <<scan_results>>,
                                    ![t].stages = @ \o <<"dispatch", "aggregate">>]
             /\ save' = [save EXCEPT ![t] =
                            SaveVulnerabilityReportCall(run[t].key,
                                run[t].github_repo_name, scan_results, now)]
             /\ running' = 0
       \/ \E failure \in AnalysisFailures :
             /\ run' = [run EXCEPT ![t].pc = AfterReturn,
                                    ![t].stages =
                                        IF failure = "dispatch"
                                        THEN Append(@, "dispatch")
                                        ELSE @ \o <<"dispatch", "aggregate">>,
                                    ![t].raised = failure,
                                    ![t].result = <<AnalysisFailureResult(t)>>]
             /\ running' = t
             /\ UNCHANGED save
    /\ UNCHANGED <<fs, runs, pipeline_results, vulnerability_reports, now, saves>>

\* the report of the returned result, after save_vulnerability_report
\* returned or raised
ReportAfterSave_M(vulnerability_report, raised) ==
    IF raised THEN <<>> ELSE vulnerability_report

ReportAfterSave(vulnerability_report, raised) == vulnerability_report

\* save_vulnerability_report returned or raised: the run returns its result
AfterSaveReport(t) ==
    /\ run[t].pc = "save_report"
    /\ running = 0
    /\ save[t].pc = "returned"
    /\ save' = [save EXCEPT ![t] = NoSave]
    /\ run' = [run EXCEPT ![t].pc = AfterReturn,
                           ![t].saved = Append(@, SaveOutcome(save[t])),
                           ![t].stages = Append(@, "persist report"),
                           ![t].result =
                              <<SuccessResult(RepoDir(t), run[t].chunks,
                                  ReportAfterSave(run[t].vulnerability_report,
                                                  save[t].raised))>>]
    /\ running' = t
    /\ UNCHANGED <<fs, runs, pipeline_results, vulnerability_reports, now, saves>>

\* the task is cancelled while suspended: CancelledError is raised at the
\* await; no except Exception clause catches it
Cancel(t) ==
    /\ run[t].pc \in AwaitPcs
    /\ running = 0
    /\ save' = [save EXCEPT ![t] = NoSave]
    /\ run' = [run EXCEPT ![t].pc = AfterCancel, ![t].pending = "cancelled"]
    /\ running' = Holder(t, AfterCancel)
    /\ UNCHANGED <<fs, runs, pipeline_results, vulnerability_reports, now, saves>>

\* finally: shutil.rmtree(cleanup_path) when the path exists; a failure of
\* rmtree is printed and ignored
Finally(t) ==
    /\ run[t].pc = "finally"
    /\ running = t
    /\ LET pc == IF run[t].pending = "cancelled" THEN "cancelled" ELSE "done"
           dir == RepoDir(t)
       IN  IF run[t].cleanup_path # <<>> /\ fs[dir] # <<>>
           THEN \E rmtree_raises \in BOOLEAN :
                   /\ fs' = IF rmtree_raises THEN fs ELSE [fs EXCEPT ![dir] = <<>>]
                   /\ run' = [run EXCEPT
                                 ![t].pc = pc,
                                 ![t].cleanup = IF rmtree_raises THEN "failed"
                                                ELSE "removed",
                                 ![t].dir_gone = ~rmtree_raises,
                                 ![t].stages = Append(@, "cleanup")]
           ELSE /\ fs' = fs
                /\ run' = [run EXCEPT ![t].pc = pc, ![t].cleanup = "absent",
                                       ![t].dir_gone = (fs[dir] = <<>>),
                                       ![t].stages = Append(@, "cleanup")]
    /\ running' = t
    /\ UNCHANGED <<runs, storeVars>>

\* the call has ended and its caller takes the result or the exception; the
\* task ends
Return(t) ==
    /\ run[t].pc \in EndPcs
    /\ running = t
    /\ run' = [run EXCEPT ![t] = NoRun]
    /\ running' = 0
    /\ UNCHANGED <<fs, runs, storeVars>>

PipeIdle ==
    /\ fs = [d \in Dirs |-> <<>>]
    /\ run = [t \in Tasks |-> NoRun]
    /\ running = 0
    /\ runs = 0

PipeInit ==
    /\ fs \in [Dirs -> UNION {InitialDirContents(d) : d \in Dirs}]
    /\ \A d \in Dirs : fs[d] \in InitialDirContents(d)
    /\ run = [t \in Tasks |-> NoRun]
    /\ running = 0
    /\ runs = 0

-----------------------------------------------------------------------------
(* SourceExtractor: pipeline_utils.extract_source_code and                 *)
(* process_repository over a directory tree.                               *)
(*                                                                         *)
(* A tree gives every file of a pool its state: absent, or present as a    *)
(* text file, a file that cannot be opened, a file with a null byte, or a  *)
(* file of control characters.  The directories are those of the present   *)
(* files.  rglob lists the entries of a directory in the order the         *)
(* filesystem gives them, which the code does not choose.                  *)

\* Bounds of the extraction
MaxFiles == 4
MaxExtractions == 2

FilePool ==
    << [parts |-> <<<<"a", ".", "p", "y">>>>, content |-> <<1>>],
       [parts |-> <<<<"b", ".", "p", "y">>>>, content |-> <<11999, NL, 11999>>],
       [parts |-> <<<<"n", "o", "t", "e", "s", ".", "m", "d">>>>, content |-> <<1>>],
       [parts |-> <<<<"l", "i", "b">>, <<"c", ".", "j", "s">>>>, content |-> <<1, NL>>],
       [parts |-> <<<<".", "g", "i", "t">>, <<"h", "o", "o", "k", ".", "p", "y">>>>,
        content |-> <<1>>] >>

FileStates == {"absent", "text", "unreadable", "nul", "control"}

Files == {i \in 1..Len(FilePool) : i <= MaxFiles}

Trees == [Files -> FileStates]

Present(tree) == {i \in Files : tree[i] # "absent"}

\* the names directly under the root: files, and directories of files
RootChildren(tree) == {FilePool[i].parts[1] : i \in Present(tree)}

\* the orders in which the filesystem may list the names under the root
Orders(tree) ==
    LET names == RootChildren(tree)
        n == Cardinality(names)
    IN  {o \in [1..n -> names] : \A i, j \in 1..n : i # j => o[i] # o[j]}

FileEntry(tree, i) ==
    [parts |-> FilePool[i].parts, is_file |-> TRUE, state |-> tree[i],
     content |-> FilePool[i].content]

DirEntry(seg) ==
    [parts |-> <<seg>>, is_file |-> FALSE, state |-> "dir", content |-> <<>>]

\* the entry of a name under the root
RootEntry(tree, seg) ==
    IF \E i \in Present(tree) : FilePool[i].parts = <<seg>>
    THEN FileEntry(tree, CHOOSE i \in Present(tree) : FilePool[i].parts = <<seg>>)
    ELSE DirEntry(seg)

\* the entries of a directory under the root; each directory of the pool
\* holds one file
Children(tree, seg) ==
    LET inside(i) == /\ i \in Present(tree)
                     /\ Len(FilePool[i].parts) = 2
                     /\ FilePool[i].parts[1] = seg
        indexes == SelectSeq([i \in 1..Len(FilePool) |-> i], inside)
    IN  [k \in 1..Len(indexes) |-> FileEntry(tree, indexes[k])]

RECURSIVE ChildrenOfAll(_, _)
ChildrenOfAll(tree, order) ==
    IF order = <<>> THEN <<>>
    ELSE Children(tree, Head(order)) \o ChildrenOfAll(tree, Tail(order))

\* repo_path_abs.rglob('*'): the entries of the root in the order of the
\* listing, then those of each directory in turn
rglob(tree, order) ==
    [k \in 1..Len(order) |-> RootEntry(tree, order[k])]
        \o ChildrenOfAll(tree, order)

\* open(file_path, 'r', ...) raises
OpenRaises(entry) == entry.state = "unreadable"

RECURSIVE Size(_)
Size(content) ==
    IF content = <<>> THEN 0
    ELSE (IF Head(content) = NL THEN 1 ELSE Head(content)) + Size(Tail(content))

\* f.read(): the text, whether it holds a null byte, the number of control
\* characters in content[:1024] and the length of content[:1024]
Read(entry) ==
    LET head == IF Size(entry.content) < 1024 THEN Size(entry.content) ELSE 1024
    IN  [content |-> entry.content,
         nul |-> entry.state = "nul",
         control |-> IF entry.state = "control" THEN head ELSE 0,
         head |-> head]

\* '\x00' in content or len([control characters]) > len(content[:1024]) * 0.3
LooksBinary_M(text) == text.nul \/ 10 * text.control >= 3 * text.head

LooksBinary(text) == text.nul \/ 10 * text.control > 3 * text.head

\* The content of a file as runs of characters of one class: "text", "space"
\* (tab, newline, carriage return), "control" (another character below 32)
\* and "nul"
HEAD_LENGTH == 1024
MaxCharRuns == 3
CharClasses == {"text", "space", "control", "nul"}
RunCounts == {3, 7, 307, 308, 717, 1024}
CharRuns == [class : CharClasses, count : RunCounts]

\* f.read() on runs: whether '\x00' is in the content, and for content[:1024]
\* its length and the number of its characters with ord(c) < 32 that are not
\* in '\n\r\t', counted run by run
RECURSIVE ScanHead(_, _, _)
ScanHead(text, head, control) ==
    IF text = <<>> \/ head = HEAD_LENGTH THEN [head |-> head, control |-> control]
    ELSE LET room == HEAD_LENGTH - head
             taken == IF Head(text).count < room THEN Head(text).count ELSE room
         IN  ScanHead(Tail(text), head + taken,
                      IF Head(text).class \in {"control", "nul"}
                      THEN control + taken ELSE control)

ReadRuns(text) ==
    [nul |-> \E i \in 1..Len(text) : text[i].class = "nul",
     control |-> ScanHead(text, 0, 0).control,
     head |-> ScanHead(text, 0, 0).head]

\* the file is read and examined: it is stored unless it looks binary
ExamineFile ==
    /\ file_kept = <<>>
    /\ file_kept' = <<~LooksBinary(ReadRuns(file_text))>>
    /\ UNCHANGED file_text

BinIdle == file_text = <<>> /\ file_kept = <<TRUE>>

BinInit ==
    /\ file_text \in SeqsUpTo(CharRuns, MaxCharRuns)
    /\ file_kept = <<>>

\* source_files[str(relative_path)] = content
StoreFile(source_files, key, content) ==
    IF \E i \in 1..Len(source_files) : source_files[i].path = key
    THEN [i \in 1..Len(source_files) |->
             IF source_files[i].path = key
             THEN [path |-> key, content |-> content] ELSE source_files[i]]
    ELSE Append(source_files, [path |-> key, content |-> content])

RECURSIVE ExtractLoop(_, _)

\* except Exception: print the warning and continue with the next entry
AfterReadError_M(rest, source_files) ==
    [raised |-> "OSError", source_files |-> <<>>]

AfterReadError(rest, source_files) == ExtractLoop(rest, source_files)

\* for file_path in repo_path_abs.rglob('*'): ...
ExtractLoop(listing, source_files) ==
    IF listing = <<>> THEN [raised |-> "none", source_files |-> source_files]
    ELSE LET entry == Head(listing)
             rest == Tail(listing)
         IN  IF ~entry.is_file THEN ExtractLoop(rest, source_files)
             ELSE IF should_exclude_path(entry.parts)
                  THEN ExtractLoop(rest, source_files)
             ELSE IF lower(suffix(entry.parts)) \notin SOURCE_EXTENSIONS
                  THEN ExtractLoop(rest, source_files)
             ELSE IF OpenRaises(entry) THEN AfterReadError(rest, source_files)
             ELSE IF LooksBinary(Read(entry)) THEN ExtractLoop(rest, source_files)
             ELSE ExtractLoop(rest,
                      StoreFile(source_files, entry.parts, Read(entry).content))

\* what process_repository returns or raises for a directory and a listing
\* order
ProcessResult(root, order) ==
    IF ExtractRaises(root)
    THEN [raised |-> "ValueError", source_files |-> <<>>, chunks |-> <<>>]
    ELSE LET extracted == ExtractLoop(rglob(root[1], order), <<>>)
         IN  [raised |-> extracted.raised,
              source_files |-> extracted.source_files,
              chunks |-> IF extracted.raised = "none"
                         THEN ChunkAll(extracted.source_files) ELSE <<>>]

\* process_repository is called on the directory
ExtractAndChunk ==
    /\ Len(ext_runs) < MaxExtractions
    /\ IF ext_root = <<>>
       THEN ext_runs' = Append(ext_runs, ProcessResult(ext_root, <<>>))
       ELSE \E order \in Orders(ext_root[1]) :
               ext_runs' = Append(ext_runs, ProcessResult(ext_root, order))
    /\ UNCHANGED ext_root

ExtIdle == ext_root = <<>> /\ ext_runs = <<>>

ExtInit ==
    /\ ext_root \in {<<>>} \cup {<<tree>> : tree \in Trees}
    /\ ext_runs = <<>>

-----------------------------------------------------------------------------
(* Specifications.  Each drives one component; the variables of the other  *)
(* components stay at their idle values.                                   *)

\* the chunker applied to every content within the bounds
InitChunk ==
    ChunkInit /\ FilterIdle /\ AggIdle /\ StoreIdle /\ DispIdle /\ PipeIdle
        /\ ExtIdle /\ CloneIdle /\ BinIdle

NextChunk ==
    ChunkCode
        /\ UNCHANGED <<filterVars, aggVars, storeVars, dispVars, pipeVars, extVars,
                       cloneVars, binVars>>

SpecChunk == InitChunk /\ [][NextChunk]_vars

\* the chunker applied to files of 25,000 bytes
InitSized ==
    SizedInit /\ FilterIdle /\ AggIdle /\ StoreIdle /\ DispIdle /\ PipeIdle
        /\ ExtIdle /\ CloneIdle /\ BinIdle

SpecSized == InitSized /\ [][NextChunk]_vars

\* the path filter applied to every path within the bounds
InitFilter ==
    FilterInit /\ ChunkIdle /\ AggIdle /\ StoreIdle /\ DispIdle /\ PipeIdle
        /\ ExtIdle /\ CloneIdle /\ BinIdle

NextFilter ==
    ShouldExcludePath
        /\ UNCHANGED <<chunkVars, aggVars, storeVars, dispVars, pipeVars, extVars,
                       cloneVars, binVars>>

SpecFilter == InitFilter /\ [][NextFilter]_vars

\* the two aggregations applied to every list of scan results within the
\* bounds
InitAggregate ==
    AggInit /\ ChunkIdle /\ FilterIdle /\ StoreIdle /\ DispIdle /\ PipeIdle
        /\ ExtIdle /\ CloneIdle /\ BinIdle

aggOthers ==
    <<chunkVars, filterVars, storeVars, dispVars, pipeVars, extVars, cloneVars,
      binVars>>

NextAggregate ==
    \/ AggregateInPipeline /\ UNCHANGED aggOthers
    \/ AggregateInSave /\ UNCHANGED aggOthers

SpecAggregate == InitAggregate /\ [][NextAggregate]_vars

\* tasks call the two save functions concurrently while time passes
InitStore ==
    StoreInit /\ ChunkIdle /\ FilterIdle /\ AggIdle /\ DispIdle /\ PipeIdle
        /\ ExtIdle /\ CloneIdle /\ BinIdle

storeOthers ==
    <<chunkVars, filterVars, aggVars, dispVars, pipeVars, extVars, cloneVars,
      binVars>>

NextStore ==
    \/ \E t \in Tasks : CallSavePipelineResult(t) /\ UNCHANGED storeOthers
    \/ \E t \in Tasks : CallSaveVulnerabilityReport(t) /\ UNCHANGED storeOthers
    \/ \E t \in Tasks : FindOne(t) /\ UNCHANGED storeOthers
    \/ \E t \in Tasks : WriteOne(t) /\ UNCHANGED storeOthers
    \/ \E t \in Tasks : StoreFails(t) /\ UNCHANGED storeOthers
    \/ \E t \in Tasks : SaveReturns(t) /\ UNCHANGED storeOthers
    \/ Tick /\ UNCHANGED storeOthers

SpecStore == InitStore /\ [][NextStore]_vars

\* the analysis calls of a dispatch start and finish in any order
InitDispatch ==
    DispInit /\ ChunkIdle /\ FilterIdle /\ AggIdle /\ StoreIdle /\ PipeIdle
        /\ ExtIdle /\ CloneIdle /\ BinIdle

dispOthers ==
    <<chunkVars, filterVars, aggVars, storeVars, pipeVars, extVars, cloneVars,
      binVars>>

NextDispatch ==
    \/ \E i \in DOMAIN disp_state : StartCall(i) /\ UNCHANGED dispOthers
    \/ \E i \in DOMAIN disp_state : CompleteCall(i) /\ UNCHANGED dispOthers
    \/ \E i \in DOMAIN disp_state : FailCall(i) /\ UNCHANGED dispOthers
    \/ ReturnResults /\ UNCHANGED dispOthers

SpecDispatch == InitDispatch /\ [][NextDispatch]_vars

\* clone_repository is called on every URL in every environment of the sets
InitClone ==
    CloneInit /\ ChunkIdle /\ FilterIdle /\ AggIdle /\ StoreIdle /\ DispIdle
        /\ PipeIdle /\ ExtIdle /\ BinIdle

NextClone ==
    CloneRepositoryCall
        /\ UNCHANGED <<chunkVars, filterVars, aggVars, storeVars, dispVars, pipeVars,
                       extVars, binVars>>

SpecClone == InitClone /\ [][NextClone]_vars

\* the binary check is applied to every content within the bounds
InitBinary ==
    BinInit /\ ChunkIdle /\ FilterIdle /\ AggIdle /\ StoreIdle /\ DispIdle
        /\ PipeIdle /\ ExtIdle /\ CloneIdle

NextBinary ==
    ExamineFile
        /\ UNCHANGED <<chunkVars, filterVars, aggVars, storeVars, dispVars, pipeVars,
                       extVars, cloneVars>>

SpecBinary == InitBinary /\ [][NextBinary]_vars

\* process_repository is called repeatedly on every tree within the bounds
InitExtract ==
    ExtInit /\ ChunkIdle /\ FilterIdle /\ AggIdle /\ StoreIdle /\ DispIdle
        /\ PipeIdle /\ CloneIdle /\ BinIdle

NextExtract ==
    ExtractAndChunk
        /\ UNCHANGED <<chunkVars, filterVars, aggVars, storeVars, dispVars, pipeVars,
                       cloneVars, binVars>>

SpecExtract == InitExtract /\ [][NextExtract]_vars

\* tasks call run_pipeline, the store serves their saves, tasks are cancelled
\* at their awaits
Init ==
    PipeInit /\ StoreInit /\ ChunkIdle /\ FilterIdle /\ AggIdle /\ DispIdle
        /\ ExtIdle /\ CloneIdle /\ BinIdle

pipeOthers ==
    <<chunkVars, filterVars, aggVars, dispVars, extVars, cloneVars, binVars>>

Next ==
    \/ \E t \in Tasks : RunPipeline(t) /\ UNCHANGED pipeOthers
    \/ \E t \in Tasks : Mkdir(t) /\ UNCHANGED pipeOthers
    \/ \E t \in Tasks : Exists(t) /\ UNCHANGED pipeOthers
    \/ \E t \in Tasks : CloneRepository(t) /\ UNCHANGED pipeOthers
    \/ \E t \in Tasks : ProcessRepository(t) /\ UNCHANGED pipeOthers
    \/ \E t \in Tasks : AfterSaveChunks(t) /\ UNCHANGED pipeOthers
    \/ \E t \in Tasks : AfterAnalysis(t) /\ UNCHANGED pipeOthers
    \/ \E t \in Tasks : AfterSaveReport(t) /\ UNCHANGED pipeOthers
    \/ \E t \in Tasks : Cancel(t) /\ UNCHANGED pipeOthers
    \/ \E t \in Tasks : Finally(t) /\ UNCHANGED pipeOthers
    \/ \E t \in Tasks : Return(t) /\ UNCHANGED pipeOthers
    \/ \E t \in Tasks : FindOne(t) /\ UNCHANGED <<pipeVars, pipeOthers>>
    \/ \E t \in Tasks : WriteOne(t) /\ UNCHANGED <<pipeVars, pipeOthers>>
    \/ \E t \in Tasks : StoreFails(t) /\ UNCHANGED <<pipeVars, pipeOthers>>

Spec == Init /\ [][Next]_vars

\* Quantities the chunker claims are stated in, taken from the content itself
NumLines(c) == 1 + Cardinality({i \in 1..Len(c) : c[i] = NL})

ContentLines == split(code)

RangeSize(first, last) ==
    SumSeq([k \in 1..(last - first + 1) |-> ContentLines[first + k - 1] + 1])

\* C1: the chunks' line ranges, in list order, partition 1..N without gap or
\* overlap: the first chunk starts at line 1, each later chunk starts one line
\* after the previous chunk's end, the last chunk ends at N, no range is empty,
\* and the chunk ids are 1, 2, 3, ... in list order.
C1_ChunksPartitionLines ==
    chunk_pc = "done" =>
        /\ Len(file_chunks) >= 1
        /\ file_chunks[1].start_line = 1
        /\ file_chunks[Len(file_chunks)].end_line = NumLines(code)
        /\ \A k \in 1..Len(file_chunks) :
              /\ file_chunks[k].start_line <= file_chunks[k].end_line
              /\ file_chunks[k].chunk_id = k
              /\ k > 1 => file_chunks[k].start_line = file_chunks[k - 1].end_line + 1

C1_Witness ==
    /\ chunk_pc = "done"
    /\ Len(file_chunks) = 3
    /\ file_chunks[2].end_line > file_chunks[2].start_line
    /\ NumLines(code) = 4

\* C2: no chunk is larger than CHUNK_SIZE (lines counted with their
\* terminator) unless it is exactly one line that alone exceeds CHUNK_SIZE;
\* such a line is the only line of its chunk.
C2_ChunkSizeBounded ==
    chunk_pc = "done" =>
        /\ \A k \in 1..Len(file_chunks) :
              LET c == file_chunks[k]
              IN  \/ RangeSize(c.start_line, c.end_line) <= CHUNK_SIZE
                  \/ /\ c.start_line = c.end_line
                     /\ ContentLines[c.start_line] + 1 > CHUNK_SIZE
        /\ \A l \in 1..Len(ContentLines) :
              ContentLines[l] + 1 > CHUNK_SIZE =>
                  \E k \in 1..Len(file_chunks) :
                      file_chunks[k].start_line = l /\ file_chunks[k].end_line = l

C2_Witness ==
    /\ chunk_pc = "done"
    /\ Len(file_chunks) = 3
    /\ ContentLines[file_chunks[2].start_line] + 1 > CHUNK_SIZE
    /\ RangeSize(file_chunks[1].start_line, file_chunks[1].end_line) = CHUNK_SIZE

\* C3: the five per-severity counts sum to total_vulnerabilities, in the
\* report run_pipeline returns and in the report save_vulnerability_report
\* writes, whatever severity strings the findings carry.
C3_CountsSumToTotal ==
    /\ \A r \in {agg_report[i] : i \in 1..Len(agg_report)} :
          r.severity_breakdown.critical + r.severity_breakdown.high
            + r.severity_breakdown.medium + r.severity_breakdown.low
            + r.severity_breakdown.info = r.total_vulnerabilities
    /\ \A d \in {agg_doc[i] : i \in 1..Len(agg_doc)} :
          d.critical_count + d.high_count + d.medium_count + d.low_count
            + d.info_count = d.total_vulnerabilities

\* The rules of the filter's contract, stated on the path
Hidden(seg) == startswith_dot(seg) /\ seg # DOT /\ seg # DOTDOT

HasSourceExtension(seg) == lower(suffix(<<seg>>)) \in SOURCE_EXTENSIONS

Rule1(p) == \E i \in 1..Len(p) :
                Hidden(p[i]) /\ ~(i = Len(p) /\ HasSourceExtension(p[i]))
Rule2(p) == \E i \in 1..Len(p) : lower(p[i]) \in EXCLUDED_DIRS
Rule3(p) == lower(name(p)) \in {lower(f) : f \in EXCLUDED_FILES}
Rule4(p) == lower(suffix(p)) \in EXCLUDED_EXTENSIONS
Rule5(p) == suffix(p) = <<>>
Rule6(p) == lower(suffix(p)) \notin SOURCE_EXTENSIONS

\* C8: for every relative path of a file, should_exclude_path returns the
\* decision of the first matching rule among: a hidden segment that is not the
\* file's own name with a source extension, an excluded directory name, an
\* excluded file name, an excluded extension, no extension, an extension
\* outside the allow-list (all exclude); otherwise include.
C8_FirstMatchingRule ==
    (filter_pc = "done" /\ path # <<>>) =>
        (excluded <=> (Rule1(path) \/ Rule2(path) \/ Rule3(path)
                         \/ Rule4(path) \/ Rule5(path) \/ Rule6(path)))

\* the documents of a collection before and after a step, by _id
DocById(coll, id) == coll[CHOOSE i \in 1..Len(coll) : coll[i]._id = id]

Ids(coll) == {coll[i]._id : i \in 1..Len(coll)}

\* a step in which task t's write replaces an existing document
UpdatesExisting(t) ==
    /\ save[t].pc = "write"
    /\ save'[t].pc = "returned"
    /\ ~save'[t].raised
    /\ save[t].existing # <<>>

CreatedAtKept(coll, collNext) ==
    \A id \in Ids(coll) :
        /\ id \in Ids(collNext)
        /\ DocById(collNext, id).created_at = DocById(coll, id).created_at

\* every field of the document but _id and created_at carries the value of
\* the call's new document model, updated_at the time read after the lookup
Overwritten(doc, frame) ==
    /\ \A f \in DOMAIN frame.model[1] \ {"created_at", "updated_at"} :
          doc[f] = frame.model[1][f]
    /\ doc.updated_at = frame.update_data[1].updated_at
    /\ doc.updated_at >= doc.created_at

\* C9: a save for a key that already has a stored document overwrites every
\* field of that document with the new values except created_at, which no
\* save ever changes once the document is inserted; updated_at is set to the
\* time of the save that wrote last.
C9_UpsertPreservesCreatedAt ==
    [][/\ CreatedAtKept(pipeline_results, pipeline_results')
       /\ CreatedAtKept(vulnerability_reports, vulnerability_reports')
       /\ \A t \in Tasks : UpdatesExisting(t) =>
             LET id == save[t].existing[1]._id
             IN  IF save[t].kind = "chunks"
                 THEN Overwritten(DocById(pipeline_results', id), save[t])
                 ELSE Overwritten(DocById(vulnerability_reports', id), save[t])]_vars

\* a document was overwritten by a later save with other values at a later
\* time, and still carries the created_at of its insertion
C9_Witness ==
    \E i \in 1..Len(vulnerability_reports) :
        /\ vulnerability_reports[i].created_at = 0
        /\ vulnerability_reports[i].updated_at = 2
        /\ vulnerability_reports[i].scan_completed_at > 0
        /\ vulnerability_reports[i].total_vulnerabilities = 1

RefersTo(result, chunk) ==
    result.chunk_id = chunk.chunk_id /\ result.file_path = chunk.file_path

\* C6: the dispatch returns exactly one scan result per input chunk, the i-th
\* referring to the i-th chunk, whatever the completion order; a call that
\* finishes writes the slot of its own chunk and no other.
C6_OneResultPerChunkInOrder ==
    /\ [](\A k \in 1..Len(disp_out) :
            /\ Len(disp_out[k]) = Len(disp_chunks)
            /\ \A i \in 1..Len(disp_chunks) : RefersTo(disp_out[k][i], disp_chunks[i]))
    /\ [][\A i \in DOMAIN disp_state :
            disp_state'[i] = disp_state[i] => disp_results'[i] = disp_results[i]]_vars

\* the call of the third chunk finished before the call of the first started
C6_Witness ==
    /\ Len(disp_chunks) = 3
    /\ disp_state[1] = "pending"
    /\ disp_state[3] = "done"
    /\ disp_results[3] # <<>>
    /\ disp_results[1] = <<>>

\* C7: a chunk whose analysis call fails gets a result with status error and
\* a non-empty message; every other chunk's result is the completed result of
\* its own findings, whichever other calls failed; the dispatch still returns
\* all results.
C7_FailureIsolatedPerChunk ==
    /\ \A i \in DOMAIN disp_state :
          disp_state[i] = "done" =>
              /\ disp_results[i] # <<>>
              /\ IF disp_failure[i] # "none"
                 THEN /\ disp_results[i][1].scan_status = "error"
                      /\ disp_results[i][1].error_message # ""
                 ELSE disp_results[i][1] =
                          CompletedResult(disp_chunks[i], disp_findings[i])
    /\ \A k \in 1..Len(disp_out) :
          /\ Len(disp_out[k]) = Len(disp_chunks)
          /\ \A i \in 1..Len(disp_chunks) : disp_out[k][i] = disp_results[i][1]

\* the scenario of three chunks of which the second fails
C7_Witness ==
    /\ disp_out # <<>>
    /\ Len(disp_chunks) = 3
    /\ disp_out[1][1].scan_status = "completed"
    /\ disp_out[1][2].scan_status = "error"
    /\ disp_out[1][3].scan_status = "completed"

-----------------------------------------------------------------------------
(* Claims about the pipeline                                               *)

Ended(t) == run[t].pc \in EndPcs

\* the finally block has run, and the directory is gone unless rmtree raised
CleanedUp(t) ==
    /\ run[t].cleanup # "none"
    /\ run[t].cleanup # "failed" => fs[RepoDir(t)] = <<>>

\* C4 as stated: whenever a run got past the clone stage, its clone directory
\* is removed when the run ends, on every exit path.
C4_DirRemovedOnEveryExit ==
    \A t \in Tasks :
        (Ended(t) /\ run[t].cleanup_path # <<>>) => fs[RepoDir(t)] = <<>>

\* C4 amended: whenever a run got past the clone stage, the cleanup has run
\* when the run ends, on every exit path including cancellation, and the
\* clone directory is removed unless rmtree itself raised.
C4_CleanupRunsOnEveryExit ==
    \A t \in Tasks :
        (Ended(t) /\ run[t].cleanup_path # <<>>) => CleanedUp(t)

\* a run that cloned was cancelled at an await and its directory is removed
C4_Witness ==
    \E t \in Tasks :
        /\ run[t].pc = "cancelled"
        /\ run[t].clone_attempted
        /\ run[t].cleanup = "removed"
        /\ fs[RepoDir(t)] = <<>>

\* the chunk list of every clone a directory can hold
ChunksOf ==
    [c \in {Clone(n, complete) : n \in RepoNames, complete \in BOOLEAN} |->
        process_repository(c)]

ReusedRunBehaves(t) ==
    /\ ~run[t].clone_attempted
    /\ \E i \in 1..Len(run[t].stages) : run[t].stages[i] = "extract"
    /\ run[t].pending # "cancelled" =>
          /\ run[t].pc = "done"
          /\ run[t].result # <<>>
          /\ run[t].result[1].success =>
                run[t].result[1].chunks = ChunksOf[run[t].reused[1]]

\* C5 as stated: when the target directory exists at the start of a run, no
\* clone is attempted, extraction and chunking run on that directory, the
\* run completes, and the directory is removed during cleanup.
C5_ReusedDirProcessedAndRemoved ==
    \A t \in Tasks :
        (Ended(t) /\ run[t].reused # <<>>) =>
            ReusedRunBehaves(t) /\ fs[RepoDir(t)] = <<>>

\* C5 amended: ... and the cleanup tries to remove the directory: it is
\* removed unless rmtree itself raised.
C5_ReusedDirProcessedAndCleaned ==
    \A t \in Tasks :
        (Ended(t) /\ run[t].reused # <<>>) =>
            ReusedRunBehaves(t) /\ CleanedUp(t)

\* a run found the directory, returned its chunks and removed it
C5_Witness ==
    \E t \in Tasks :
        /\ run[t].pc = "done"
        /\ run[t].reused # <<>>
        /\ run[t].result[1].success
        /\ run[t].result[1].chunks # <<>>
        /\ run[t].cleanup = "removed"

\* C10: no error raised in a stage of run_pipeline propagates to the caller:
\* every call that is not cancelled returns a result with a success flag
\* and a message.
C10_NoErrorPropagates ==
    \A t \in Tasks :
        /\ run[t].pc # "raised"
        /\ run[t].pc = "done" =>
              /\ run[t].result # <<>>
              /\ run[t].result[1].success \in BOOLEAN
              /\ run[t].result[1].message # ""

\* the clone a run extracted from: the one it found, or the one it made
Processed(t) ==
    IF run[t].reused # <<>> THEN run[t].reused[1]
    ELSE Clone(run[t].github_repo_name, TRUE)

HasStage(t, stage) ==
    \E i \in 1..Len(run[t].stages) : run[t].stages[i] = stage

SavedKinds(t) == {run[t].saved[i].kind : i \in 1..Len(run[t].saved)}

FailedSaves(t) ==
    {run[t].saved[i].kind : i \in {j \in 1..Len(run[t].saved) : run[t].saved[j].raised}}

\* the result says success and carries the chunks of the repository
SucceedsWithChunks(t) ==
    /\ run[t].result # <<>>
    /\ run[t].result[1].success
    /\ run[t].result[1].chunks = ChunksOf[Processed(t)]
    /\ run[t].result[1].total_chunks = Len(ChunksOf[Processed(t)])

\* C11: when the dispatch or the aggregation raises after extraction and
\* chunking succeeded, the run returns success with the full chunk list and
\* its count and without report, and that run has made no call that writes
\* a report to the store.
C11_AnalysisFailureKeepsChunks ==
    \A t \in Tasks :
        run[t].raised \in AnalysisFailures =>
            /\ run[t].pc \in {"finally", "done"}
            /\ SucceedsWithChunks(t)
            /\ run[t].result[1].vulnerability_report = <<>>
            /\ "report" \notin SavedKinds(t)
            /\ save[t] = NoSave

\* the dispatch raised in a run over a repository of several chunks
C11_Witness ==
    \E t \in Tasks :
        /\ run[t].pc = "done"
        /\ run[t].raised = "dispatch"
        /\ Len(run[t].result[1].chunks) > 1
        /\ run[t].result[1].vulnerability_report = <<>>

\* C12: a run whose store write failed and that is not cancelled returns
\* success with the chunks of the repository; after a failed save of the
\* chunk record the analysis is still called, and after a failed save of
\* the report the result still carries the report.
C12_StoreFailureNotFatal ==
    \A t \in Tasks :
        /\ (run[t].pc = "done" /\ FailedSaves(t) # {}) => SucceedsWithChunks(t)
        /\ ("chunks" \in FailedSaves(t) /\ run[t].pending # "cancelled") =>
              run[t].pc = "analysis" \/ HasStage(t, "dispatch")
        /\ (run[t].pc = "done" /\ "report" \in FailedSaves(t)) =>
              /\ run[t].scan_results # <<>>
              /\ run[t].result[1].vulnerability_report =
                    <<PipelineReport(run[t].scan_results[1])>>

\* both saves of a run failed and it returned its chunks and its report
C12_Witness ==
    \E t \in Tasks :
        /\ run[t].pc = "done"
        /\ FailedSaves(t) = {"chunks", "report"}
        /\ run[t].result[1].success
        /\ run[t].result[1].chunks # <<>>
        /\ run[t].result[1].vulnerability_report # <<>>

\* C13: when the clone fails the run returns at once a result with success
\* false, a message, no chunks and no report, and that run has extracted
\* nothing, called no analysis, made no store call and removed no
\* directory.
C13_CloneFailureReturnsAtOnce ==
    \A t \in Tasks :
        run[t].raised = "clone" =>
            /\ run[t].pc = "done"
            /\ run[t].result # <<>>
            /\ ~run[t].result[1].success
            /\ run[t].result[1].message # ""
            /\ run[t].result[1].chunks = <<>>
            /\ run[t].result[1].vulnerability_report = <<>>
            /\ run[t].stages = <<"clone">>
            /\ run[t].saved = <<>>
            /\ save[t] = NoSave
            /\ run[t].cleanup = "none"

\* a clone timed out and the run ended with the partial clone left in place
C13_Witness ==
    \E t \in Tasks :
        /\ run[t].raised = "clone"
        /\ run[t].pc = "done"
        /\ fs[RepoDir(t)] = <<Clone(run[t].github_repo_name, FALSE)>>

\* C14: extract_source_code raises when the root path does not exist; and a
\* run in which extraction or chunking raised returns success false with a
\* message, no chunks and no report, has made no store call and no
\* analysis call, and has run the cleanup when it ends.
C14_ExtractionFailureIsFatal ==
    \A t \in Tasks :
        /\ run[t].root = "missing" => run[t].raised = "process"
        /\ run[t].raised = "process" =>
              /\ run[t].pc \in {"finally", "done"}
              /\ run[t].result # <<>>
              /\ ~run[t].result[1].success
              /\ run[t].result[1].message # ""
              /\ run[t].result[1].chunks = <<>>
              /\ run[t].result[1].vulnerability_report = <<>>
              /\ run[t].saved = <<>>
              /\ save[t] = NoSave
              /\ ~HasStage(t, "dispatch")
              /\ run[t].pc = "done" =>
                    run[t].cleanup # "none" /\ HasStage(t, "cleanup")

\* the directory a run had cloned was gone when extraction looked for it,
\* and the run ended with a failure result after its cleanup
C14_Witness ==
    \E t \in Tasks :
        /\ run[t].pc = "done"
        /\ run[t].clone_attempted
        /\ run[t].root = "missing"
        /\ ~run[t].result[1].success
        /\ run[t].cleanup = "absent"

-----------------------------------------------------------------------------
(* Claims about the extraction                                             *)

\* the files that pass the filter and whose content passes the binary
\* check: those extracted when every one of them can be read
WouldExtract(tree) ==
    {i \in Present(tree) :
        /\ ~should_exclude_path(FilePool[i].parts)
        /\ tree[i] \notin {"nul", "control"}}

Unreadable(tree) == {i \in WouldExtract(tree) : tree[i] = "unreadable"}

ExtractedPaths(result) ==
    {result.source_files[k].path : k \in 1..Len(result.source_files)}

\* C15: a file that cannot be read is skipped and the extraction returns
\* every other file that passes the filter and the binary check: with k
\* unreadable files among the n that would otherwise be extracted the
\* result has n - k entries, and the extraction does not fail.
C15_UnreadableFilesSkipped ==
    ext_root # <<>> =>
        \A r \in 1..Len(ext_runs) :
            LET tree == ext_root[1]
                result == ext_runs[r]
            IN  /\ result.raised = "none"
                /\ Len(result.source_files) =
                      Cardinality(WouldExtract(tree)) - Cardinality(Unreadable(tree))
                /\ ExtractedPaths(result) =
                      {FilePool[i].parts : i \in WouldExtract(tree) \ Unreadable(tree)}

\* one of two source files could not be opened and the other was returned
C15_Witness ==
    /\ ext_root # <<>>
    /\ ext_root[1][1] = "unreadable"
    /\ ext_root[1][2] = "text"
    /\ ext_runs # <<>>
    /\ ExtractedPaths(ext_runs[1]) = {FilePool[2].parts}

\* C18: two runs of extraction and chunking over the same repository
\* contents return the same chunk sequence, element by element, whatever
\* the order in which the filesystem lists the directory entries.
C18_SameChunksWhateverTheListing ==
    \A i, j \in 1..Len(ext_runs) : ext_runs[i].chunks = ext_runs[j].chunks

-----------------------------------------------------------------------------
(* Claims about files of 25,000 bytes                                      *)

Bytes(c) == Size(c)

LongestLine ==
    LET lines == ContentLines
    IN  CHOOSE m \in {lines[i] : i \in 1..Len(lines)} :
            \A i \in 1..Len(lines) : lines[i] <= m

RangesCoverLines ==
    /\ file_chunks # <<>>
    /\ file_chunks[1].start_line = 1
    /\ file_chunks[Len(file_chunks)].end_line = NumLines(code)
    /\ \A k \in 1..Len(file_chunks) :
          /\ file_chunks[k].start_line <= file_chunks[k].end_line
          /\ k > 1 => file_chunks[k].start_line = file_chunks[k - 1].end_line + 1
    /\ SumSeq([k \in 1..Len(file_chunks) |->
                 file_chunks[k].end_line - file_chunks[k].start_line + 1])
          = NumLines(code)

\* C16 as stated: a file of 25,000 bytes without a line of more than 12,000
\* bytes gives exactly 3 chunks, whose line ranges are contiguous, do not
\* overlap and have lengths that sum to the number of lines.
C16_ExactlyThreeChunks ==
    (chunk_pc = "done" /\ Bytes(code) = FileBytes /\ LongestLine <= CHUNK_SIZE) =>
        Len(file_chunks) = 3 /\ RangesCoverLines

\* C16 amended: such a file gives at least 3 and at most 5 chunks, whose
\* line ranges are contiguous, do not overlap and have lengths that sum to
\* the number of lines.
C16_ThreeToFiveChunks ==
    (chunk_pc = "done" /\ Bytes(code) = FileBytes /\ LongestLine <= CHUNK_SIZE) =>
        Len(file_chunks) \in 3..5 /\ RangesCoverLines

\* four lines of 6,000 bytes and a rest: no two long lines share a chunk
C16_Witness ==
    /\ chunk_pc = "done"
    /\ Bytes(code) = FileBytes
    /\ LongestLine = 6000
    /\ Len(file_chunks) = 4

-----------------------------------------------------------------------------
(* Claims about repeated aggregation                                       *)

SeverityCountFields ==
    [Critical |-> "critical_count", High |-> "high_count",
     Medium |-> "medium_count", Low |-> "low_count", Info |-> "info_count"]

CountFields ==
    {"total_vulnerabilities", "critical_count", "high_count", "medium_count",
     "low_count", "info_count"}

SameCounts(d, e) == \A f \in CountFields : d[f] = e[f]

\* a severity without finding in the stored scan results has count zero
ZeroWhereNoFinding(d) ==
    \A sev \in DOMAIN SeverityCountFields :
        (\A i \in 1..Len(Flatten(d.scan_results)) :
            Flatten(d.scan_results)[i].severity # sev)
          => d[SeverityCountFields[sev]] = 0

\* C17: saving a list of scan results for a key whose stored report was
\* aggregated from the same list leaves the per-severity counts and the
\* total as they were, and in every stored report a severity without
\* finding has count zero.
C17_AggregationIdempotent ==
    [][/\ \A t \in Tasks :
             (UpdatesExisting(t) /\ save[t].kind = "report") =>
                 LET id == save[t].existing[1]._id
                     before == DocById(vulnerability_reports, id)
                     after == DocById(vulnerability_reports', id)
                 IN  after.scan_results = before.scan_results =>
                         SameCounts(after, before)
       /\ \A i \in 1..Len(vulnerability_reports') :
             ZeroWhereNoFinding(vulnerability_reports'[i])]_vars

\* a list with a finding was saved a second time for its key
C17_Witness ==
    \E t \in Tasks :
        /\ save[t].pc = "returned"
        /\ ~save[t].raised
        /\ save[t].kind = "report"
        /\ save[t].existing # <<>>
        /\ save[t].scan_results # <<>>
        /\ save[t].existing[1].scan_results = save[t].scan_results
        /\ DocById(vulnerability_reports, save[t].existing[1]._id).high_count = 1

-----------------------------------------------------------------------------
(* Claims about the order of the stages and the clone directory            *)

\* the stages of a run follow each other in the order of a ranking
InOrder(stages, rank) ==
    \A i, j \in 1..Len(stages) : i < j => rank[stages[i]] < rank[stages[j]]

LastStage(t) == run[t].stages[Len(run[t].stages)]

\* the order of the claim: persisting comes after aggregating
ClaimedRank ==
    [clone |-> 1, reuse |-> 1, extract |-> 2, chunk |-> 3, dispatch |-> 4,
     aggregate |-> 5, cleanup |-> 7] @@
    ("persist chunks" :> 6) @@ ("persist report" :> 6)

\* the order of the code: the chunk record is saved before the dispatch
CodeRank ==
    [clone |-> 1, reuse |-> 1, extract |-> 2, chunk |-> 3, dispatch |-> 5,
     aggregate |-> 6, cleanup |-> 8] @@
    ("persist chunks" :> 4) @@ ("persist report" :> 7)

\* a step in which a save call of task t writes to its collection
Writes(t) ==
    /\ save[t].pc = "write"
    /\ save'[t].pc = "returned"
    /\ ~save'[t].raised

UsesDir(t) ==
    /\ run[t].cleanup_path # <<>>
    /\ run[t].cleanup = "none"
    /\ run[t].pc \notin EndPcs

\* C20: no two runs that are active at the same time use the same clone
\* directory, so no run reads or removes a directory that another run is
\* using.
C20_DirOwnedByOneRun ==
    \A t, u \in Tasks :
        (t # u /\ UsesDir(t) /\ UsesDir(u)) => RepoDir(t) # RepoDir(u)

-----------------------------------------------------------------------------
(* Claims about clone_repository                                           *)

FailsExplicitly(ret) ==
    /\ ret.raised = "none"
    /\ ret.result # <<>>
    /\ ~ret.result[1].success
    /\ ret.result[1].path = <<>>
    /\ ret.result[1].message # ""

\* C21: clone_repository never raises; a URL that is neither a URL nor of
\* the form owner/repo, a missing git binary, a non-zero exit of git and
\* the timeout each give a result with success false, no path and a
\* message; success is returned only when the target directory exists.
C21_CloneFailsExplicitly ==
    clone_ret # <<>> =>
        LET call == clone_call[1]
            ret == clone_ret[1]
            invalid == /\ ~has_slash(call.repo_url)
                       /\ (Len(call.repo_url) < 4 \/ SubSeq(call.repo_url, 1, 4) # HTTP)
        IN  /\ ret.raised = "none"
            /\ ret.result # <<>>
            /\ (call.mkdir = "ok" /\ invalid) => FailsExplicitly(ret)
            /\ (call.mkdir = "ok" /\ ~invalid /\ call.target = "absent"
                    /\ call.git # "ok") => FailsExplicitly(ret)
            /\ ret.result[1].success =>
                  /\ ret.target # "absent"
                  /\ ret.result[1].path # <<>>

\* git was not found when an owner/repo name was to be cloned
C21_Witness ==
    /\ clone_ret # <<>>
    /\ clone_call[1].repo_url = <<"alice", "/", "app">>
    /\ clone_call[1].git = "FileNotFoundError"
    /\ clone_call[1].target = "absent"
    /\ clone_call[1].mkdir = "ok"
    /\ FailsExplicitly(clone_ret[1])

-----------------------------------------------------------------------------
(* Claims about directories in the path filter                             *)

\* C22: a path with a segment other than the last that is hidden or that
\* is, whatever its case, the name of an excluded directory is excluded,
\* whatever the name and the extension of the file.
C22_DirectorySegmentExcludes ==
    (filter_pc = "done"
        /\ \E i \in 1..(Len(path) - 1) :
              Hidden(path[i]) \/ lower(path[i]) \in EXCLUDED_DIRS)
      => excluded

-----------------------------------------------------------------------------
(* Claims about the binary check                                           *)

\* the first and the last position of run i in the content
FirstOf(text, i) == 1 + SumSeq([k \in 1..(i - 1) |-> text[k].count])
LastOf(text, i) == SumSeq([k \in 1..i |-> text[k].count])

TextLength(text) == LastOf(text, Len(text))

HeadLength(text) ==
    IF TextLength(text) < HEAD_LENGTH THEN TextLength(text) ELSE HEAD_LENGTH

\* the number of characters of run i among the first 1024 of the content
InHead(text, i) ==
    IF FirstOf(text, i) > HEAD_LENGTH THEN 0
    ELSE IF LastOf(text, i) > HEAD_LENGTH THEN HEAD_LENGTH - FirstOf(text, i) + 1
    ELSE text[i].count

ControlInHead(text) ==
    SumSeq([i \in 1..Len(text) |->
               IF text[i].class \in {"control", "nul"} THEN InHead(text, i) ELSE 0])

\* C23: a readable file that passes the filter is dropped exactly when its
\* content holds a NUL character or more than 30% of its first 1024
\* characters (of all of them when it is shorter) are control characters
\* other than tab, newline and carriage return; an empty file is kept.
C23_BinaryHeuristic ==
    file_kept # <<>> =>
        /\ ~file_kept[1] <=>
              \/ \E i \in 1..Len(file_text) : file_text[i].class = "nul"
              \/ 10 * ControlInHead(file_text) > 3 * HeadLength(file_text)
        /\ file_text = <<>> => file_kept[1]

\* 717 characters of text followed by 308 control characters: 307 of them
\* are among the first 1024, which is not more than 30%, and the file is kept
C23_Witness ==
    /\ file_text = <<[class |-> "text", count |-> 717],
                     [class |-> "control", count |-> 308]>>
    /\ file_kept = <<TRUE>>

-----------------------------------------------------------------------------
(* Claims about the text and the packing of the chunks                     *)

\* C24: the annotated text of every chunk has a header that names the file
\* path and the range start_line-end_line of the chunk's own fields, then
\* exactly end_line - start_line + 1 body lines, the i-th of them prefixed
\* with the number start_line + i - 1 and carrying the source line that has
\* that absolute number in the file.
C24_SnippetNumbersSourceLines ==
    chunk_pc = "done" =>
        \A k \in 1..Len(file_chunks) :
            LET c == file_chunks[k]
                body == c.code_snippet.numbered_lines
            IN  /\ c.file_path = FilePath
                /\ c.code_snippet.file = c.file_path
                /\ c.code_snippet.first = c.start_line
                /\ c.code_snippet.last = c.end_line
                /\ Len(body) = c.end_line - c.start_line + 1
                /\ \A i \in 1..Len(body) :
                      /\ body[i].num = c.start_line + i - 1
                      /\ body[i].num \in 1..Len(ContentLines)
                      /\ body[i].text = ContentLines[body[i].num]

\* a second chunk of two lines that differ, after a first chunk of one line
C24_Witness ==
    /\ chunk_pc = "done"
    /\ Len(file_chunks) = 2
    /\ file_chunks[2].start_line = 2
    /\ file_chunks[2].end_line = 3
    /\ ContentLines[2] # ContentLines[3]

\* C26: the packing is greedy: a chunk is closed only when the next line does
\* not fit, so the size of a chunk plus the size of the first line of the
\* chunk after it (lines counted with their terminator) exceeds CHUNK_SIZE,
\* and no chunk is empty.
C26_GreedyPacking ==
    chunk_pc = "done" =>
        /\ \A k \in 1..Len(file_chunks) :
              file_chunks[k].start_line <= file_chunks[k].end_line
        /\ \A k \in 1..(Len(file_chunks) - 1) :
              RangeSize(file_chunks[k].start_line, file_chunks[k].end_line)
                  + ContentLines[file_chunks[k + 1].start_line] + 1 > CHUNK_SIZE

\* two lines that fill the first chunk to the limit exactly, a third line
\* that opens the second chunk
C26_Witness ==
    /\ chunk_pc = "done"
    /\ Len(file_chunks) = 2
    /\ file_chunks[1].end_line = 2
    /\ RangeSize(1, 2) = CHUNK_SIZE
    /\ file_chunks[2].start_line = 3

-----------------------------------------------------------------------------
(* Claims about concurrent runs                                            *)

\* the run is suspended at an await whose awaited call has completed
Resumable(u) ==
    \/ run[u].pc = "analysis"
    \/ run[u].pc \in {"save_chunks", "save_report"} /\ save[u].pc = "returned"

\* the next step of a suspended run
Resume(u) == AfterSaveChunks(u) \/ AfterAnalysis(u) \/ AfterSaveReport(u)

\* C25: the clone is isolated from the other runs: while a run is executing
\* its clone, another run whose awaited call has completed can take its
\* next step.
C25_CloneDoesNotStall ==
    \A t \in Tasks : \A u \in Tasks \ {t} :
        (run[t].pc = "clone" /\ Resumable(u)) => ENABLED Resume(u)

\* C27: whatever the interleaving of the save calls, two first-time saves
\* of one key that overlap between their lookup and their write included,
\* each collection holds at most one record per key.
C27_OneRecordPerKey ==
    \A key \in Keys :
        /\ Cardinality(Matching(vulnerability_reports, key)) <= 1
        /\ Cardinality(Matching(pipeline_results, key)) <= 1

\* no run is active and no save call is in flight
Quiescent ==
    \A t \in Tasks : run[t].pc = "idle" /\ save[t].pc = "none"

\* every scan result of the report is the result of the chunk at the same
\* place in the chunk record, and every chunk has one
ComputedFrom(report, record) ==
    /\ Len(report.scan_results) = Len(record.chunks)
    /\ \A k \in 1..Len(record.chunks) :
          RefersTo(report.scan_results[k], record.chunks[k])

\* C28: after any sequence of runs, when the store holds a chunk record and
\* a vulnerability report for one key, the report's scan results were
\* computed from the chunks of the chunk record, also after a later run whose
\* analysis or report save failed.
C28_ReportMatchesChunkRecord ==
    Quiescent =>
        \A key \in Keys :
            \A i \in Matching(pipeline_results, key) :
                \A j \in Matching(vulnerability_reports, key) :
                    ComputedFrom(vulnerability_reports[j], pipeline_results[i])

\* C29: the chunks a run returns and stores come only from the repository
\* its request names with its owner: a directory that holds another
\* repository whose name ends with the same segment is never the source of
\* the run.
C29_SourceIsRequestedRepository ==
    \A t \in Tasks :
        (Len(run[t].github_repo_name) = 2 /\ run[t].chunks # <<>>) =>
            /\ Processed(t).repo = run[t].github_repo_name
            /\ run[t].chunks = ChunksOf[Clone(run[t].github_repo_name, TRUE)]

\* C30: after a run that ended with a clone failure, a clone killed by the
\* timeout after it had started writing included, the target directory does
\* not exist, so that no later run takes a partial directory for an
\* existing repository.
C30_NoDirAfterCloneFailure ==
    /\ \A t \in Tasks :
          (run[t].raised = "clone" /\ run[t].pc = "done") => fs[RepoDir(t)] = <<>>
    /\ \A t \in Tasks :
          run[t].reused # <<>> => run[t].reused[1].complete

====
